---- MODULE Spec2Model ----
(***************************************************************************)
(* Model of pyovpn_as.api.rpc: the parameter validator                     *)
(* (_SupportedMethod.validate_param) and the call binder                   *)
(* (_SupportedMethod.__call__) over a method catalog                       *)
(* (_SupportedMethod.METHODS), the lookup of a method on the client        *)
(* (RpcClient.__getattr__), and of pyovpn_as.api.exceptions the            *)
(* translation of the transport's faults (translate_fault).                *)
(* Of the wrappers above the binder: UserOperations.create_user, the       *)
(* group operations, generate_random_password, is_password_complex and     *)
(* SetLocalPassword of RemoteSacli, validate_client_args, and the profile  *)
(* classes with Profile._resolve_type.                                     *)
(*                                                                         *)
(* Python values are records [type, num, items, vals]:                     *)
(*   type  : the runtime type name (type(x).__name__)                      *)
(*   num   : the number held by a bool/int/float, an identity for a str    *)
(*   items : the runtime types of what iterating the value yields (the     *)
(*           elements of a list, the keys of a dict, the characters of a   *)
(*           str); its length is len(x)                                    *)
(*   vals  : the runtime types of a dict's values                          *)
(* A declared type ('int', 'list[str]') is the sequence of its tokens      *)
(* (<<"int">>, <<"list", "[", "str", "]">>).                               *)
(***************************************************************************)
EXTENDS Integers, Sequences, FiniteSets, TLC

VARIABLES METHODS, pc, call, outcome, sends, vArg, vParam, vResult,
          allow_unsupported, attr, method, tfErr, tfResults,
          cuServer, cuArgs, cuPc, cuLog, cuOutcome,
          grpServer, grpOp, grpOutcome,
          gpRetries, gpTried, gpFailed, gpPc,
          pwArg, pwResult,
          vcArgs, vcResult,
          slpArgs, slpPc, slpCalls, slpOutcome,
          profClass, profAttrs, profType, profRaised,
          rtAttrs, rtTypes

vars == <<METHODS, pc, call, outcome, sends, vArg, vParam, vResult,
          allow_unsupported, attr, method, tfErr, tfResults,
          cuServer, cuArgs, cuPc, cuLog, cuOutcome,
          grpServer, grpOp, grpOutcome,
          gpRetries, gpTried, gpFailed, gpPc,
          pwArg, pwResult,
          vcArgs, vcResult,
          slpArgs, slpPc, slpCalls, slpOutcome,
          profClass, profAttrs, profType, profRaised,
          rtAttrs, rtTypes>>

bindVars == <<METHODS, pc, call, outcome, sends>>
validateVars == <<vArg, vParam, vResult>>
lookupVars == <<allow_unsupported, attr, method>>
faultVars == <<tfErr, tfResults>>

\* The variables of the operations above the RPC layer, by operation.
createVars == <<cuServer, cuArgs, cuPc, cuLog, cuOutcome>>
groupVars == <<grpServer, grpOp, grpOutcome>>
genVars == <<gpRetries, gpTried, gpFailed, gpPc>>
pwVars == <<pwArg, pwResult>>
clientVars == <<vcArgs, vcResult>>
slpVars == <<slpArgs, slpPc, slpCalls, slpOutcome>>
profVars == <<profClass, profAttrs, profType, profRaised>>
resolveVars == <<rtAttrs, rtTypes>>

rpcVars == <<bindVars, validateVars, lookupVars, faultVars>>
highVars == <<createVars, groupVars, genVars, pwVars, clientVars, slpVars, profVars, resolveVars>>

\* What an action of one operation leaves alone: the other operations.
OtherThanCreate == <<rpcVars, groupVars, genVars, pwVars, clientVars, slpVars, profVars, resolveVars>>
OtherThanGroup == <<rpcVars, createVars, genVars, pwVars, clientVars, slpVars, profVars, resolveVars>>
OtherThanGenerate == <<rpcVars, createVars, groupVars, pwVars, clientVars, slpVars, profVars, resolveVars>>
OtherThanPassword == <<rpcVars, createVars, groupVars, genVars, clientVars, slpVars, profVars, resolveVars>>
OtherThanClientArgs == <<rpcVars, createVars, groupVars, genVars, pwVars, slpVars, profVars, resolveVars>>
OtherThanSetPassword == <<rpcVars, createVars, groupVars, genVars, pwVars, clientVars, profVars, resolveVars>>
OtherThanProfile == <<rpcVars, createVars, groupVars, genVars, pwVars, clientVars, slpVars, resolveVars>>
OtherThanResolve == <<rpcVars, createVars, groupVars, genVars, pwVars, clientVars, slpVars, profVars>>

(***************************************************************************)
(* Bounds                                                                  *)
(***************************************************************************)
MaxParams == 2

MaxItems == 2

MaxPieces == 4

MaxInvocations == 2

(***************************************************************************)
(* Python values                                                           *)
(***************************************************************************)
None == [type |-> "NoneType", num |-> 0, items |-> <<>>, vals |-> <<>>]

BoolV(b) == [type |-> "bool", num |-> b, items |-> <<>>, vals |-> <<>>]

IntV(n) == [type |-> "int", num |-> n, items |-> <<>>, vals |-> <<>>]

FloatV(n) == [type |-> "float", num |-> n, items |-> <<>>, vals |-> <<>>]

StrV(id, len) == [type |-> "str", num |-> id, items |-> [i \in 1..len |-> "str"], vals |-> <<>>]

ListV(elemTypes) == [type |-> "list", num |-> 0, items |-> elemTypes, vals |-> <<>>]

DictV(keyTypes, valTypes) == [type |-> "dict", num |-> 0, items |-> keyTypes, vals |-> valTypes]

\* The marker of a key that a parameter definition does not have.
NoDefault == [type |-> "<absent>", num |-> 0, items |-> <<>>, vals |-> <<>>]

\* bool(x)
Truthy(v) ==
    CASE v.type = "NoneType" -> FALSE
      [] v.type \in {"bool", "int", "float"} -> v.num # 0
      [] OTHER -> Len(v.items) > 0

\* issubclass(R, T) for builtin type names; bool is a subclass of int.
IsSubclass(r, t) == r = t \/ (r = "bool" /\ t = "int")

\* isinstance(x, T)
IsInstance(v, t) == IsSubclass(v.type, t)

\* p.get(DEFAULT_KEY)
GetDefault(p) == IF p.default = NoDefault THEN None ELSE p.default

(***************************************************************************)
(* Outcomes: what a call or a validation ends in                           *)
(***************************************************************************)
Outcome(kind, name, expected, actual, n, got) ==
    [kind |-> kind, name |-> name, expected |-> expected, actual |-> actual,
     n |-> n, got |-> got]

NoOutcome == Outcome("none", "", <<>>, "", 0, 0)

Ok == Outcome("ok", "", <<>>, "", 0, 0)

\* TypeError("<m> expected at most <n> arguments, got <got>")
ArityError(n, got) == Outcome("arity", "", <<>>, "", n, got)

\* TypeError("<m>() got an unexpected keyword argument '<name>'")
UnexpectedKwError(name) == Outcome("unexpected_kw", name, <<>>, "", 0, 0)

\* TypeError("<m> missing argument '<name>'")
MissingError(name) == Outcome("missing", name, <<>>, "", 0, 0)

\* TypeError("Expected <type> for arg <name>, got <actual type>")
WrongTypeError(p, v) == Outcome("wrong_type", p.name, p.type, v.type, 0, 0)

\* TypeError("Expected <type> for arg <name>, got wrong item type")
WrongItemTypeError(p) == Outcome("wrong_item_type", p.name, p.type, "", 0, 0)

\* TypeError("Expected non-empty <base> for arg <name>, got empty <actual type>")
EmptyError(p, base, v) == Outcome("empty", p.name, <<base>>, v.type, 0, 0)

BindingErrorKinds ==
    {"arity", "unexpected_kw", "duplicate", "missing", "wrong_type",
     "wrong_item_type", "empty"}

(***************************************************************************)
(* validate_param                                                          *)
(***************************************************************************)
\* '[' in param_def[TYPE_KEY]
HasBracket(t) == \E i \in 1..Len(t) : t[i] = "["

\* param_def[TYPE_KEY].split('[')[0]
BaseType(t) == t[1]

\* param_def[TYPE_KEY].split('[')[1][:-1], None without a bracket
ItemType(t) == IF HasBracket(t) THEN t[3] ELSE ""

\* validate_param without its step 1: null goes on to the type check.
validate_param_NoNullStep(arg, param_def) ==
    LET param_type == BaseType(param_def.type)
        param_item_type == ItemType(param_def.type)
    IN  IF ~IsInstance(arg, param_type) THEN WrongTypeError(param_def, arg)
        ELSE IF param_item_type # ""
                /\ ~(\A i \in 1..Len(arg.items) : IsSubclass(arg.items[i], param_item_type))
             THEN WrongItemTypeError(param_def)
        ELSE IF param_type \in {"list", "dict", "str"}
                /\ ~param_def.null
                /\ Len(arg.items) = 0
             THEN EmptyError(param_def, param_type, arg)
        ELSE Ok

validate_param(arg, param_def) ==
    LET param_type == BaseType(param_def.type)
        param_item_type == ItemType(param_def.type)
    IN  IF arg = None /\ param_def.null THEN Ok
        ELSE IF ~IsInstance(arg, param_type) THEN WrongTypeError(param_def, arg)
        ELSE IF param_item_type # ""
                /\ ~(\A i \in 1..Len(arg.items) : IsSubclass(arg.items[i], param_item_type))
             THEN WrongItemTypeError(param_def)
        ELSE IF param_type \in {"list", "dict", "str"}
                /\ ~param_def.null
                /\ Len(arg.items) = 0
             THEN EmptyError(param_def, param_type, arg)
        ELSE Ok

(***************************************************************************)
(* __call__: binding the arguments to the method's parameters              *)
(***************************************************************************)
\* kwargs is the sequence of the named arguments, in the order of the call;
\* the names of a call are distinct.
InKwargs(kwargs, name) == \E k \in 1..Len(kwargs) : kwargs[k].name = name

\* kwargs[name]
KwValue(kwargs, name) ==
    kwargs[CHOOSE k \in 1..Len(kwargs) : kwargs[k].name = name].value

\* list.insert(i, x), i >= 0
Insert(vec, i, x) ==
    IF i >= Len(vec) THEN Append(vec, x)
    ELSE SubSeq(vec, 1, i) \o <<x>> \o SubSeq(vec, i + 1, Len(vec))

RECURSIVE PositionalLoop(_, _, _, _)
\* 1a: the loop over args; current_param = i - 1. Ok, or the error raised.
PositionalLoop(params, args, nkwargs, i) ==
    IF i > Len(args) THEN Ok
    ELSE IF Len(params) = i - 1
         THEN ArityError(Len(params), Len(args) + nkwargs)
    ELSE LET r == validate_param(args[i], params[i])
         IN  IF r # Ok THEN r
             ELSE PositionalLoop(params, args, nkwargs, i + 1)

\* The parameters left after the positional ones, each with its index.
param_pool(params, current_param) ==
    [j \in 1..(Len(params) - current_param) |->
        [def |-> params[current_param + j], index |-> (j - 1) + current_param]]

InPool(pool, name) == \E j \in 1..Len(pool) : pool[j].def.name = name

\* param_pool.get(kwarg)
PoolGet(pool, name) == pool[CHOOSE j \in 1..Len(pool) : pool[j].def.name = name]

RECURSIVE KeywordLoop_SkipUnknown(_, _, _, _, _, _)
\* The loop over kwargs passing over a name that is in no parameter's.
KeywordLoop_SkipUnknown(params, pool, nargs, kwargs, k, current_param) ==
    IF k > Len(kwargs) THEN Ok
    ELSE IF Len(params) = current_param
         THEN ArityError(Len(params), nargs + Len(kwargs))
    ELSE IF ~InPool(pool, kwargs[k].name)
         THEN KeywordLoop_SkipUnknown(params, pool, nargs, kwargs, k + 1, current_param)
    ELSE LET r == validate_param(kwargs[k].value, PoolGet(pool, kwargs[k].name).def)
         IN  IF r # Ok THEN r
             ELSE KeywordLoop_SkipUnknown(params, pool, nargs, kwargs, k + 1,
                                          current_param + 1)

RECURSIVE KeywordLoop(_, _, _, _, _, _)
\* 1b: the loop over kwargs. Ok, or the error raised.
KeywordLoop(params, pool, nargs, kwargs, k, current_param) ==
    IF k > Len(kwargs) THEN Ok
    ELSE IF Len(params) = current_param
         THEN ArityError(Len(params), nargs + Len(kwargs))
    ELSE IF ~InPool(pool, kwargs[k].name)
         THEN UnexpectedKwError(kwargs[k].name)
    ELSE LET r == validate_param(kwargs[k].value, PoolGet(pool, kwargs[k].name).def)
         IN  IF r # Ok THEN r
             ELSE KeywordLoop(params, pool, nargs, kwargs, k + 1, current_param + 1)

RECURSIVE NamedValues(_, _, _)
\* [kwargs[p.name] for p in param_pool.values() if p.name in kwargs]
NamedValues(pool, kwargs, j) ==
    IF j > Len(pool) THEN <<>>
    ELSE IF InKwargs(kwargs, pool[j].def.name)
         THEN <<KwValue(kwargs, pool[j].def.name)>> \o NamedValues(pool, kwargs, j + 1)
    ELSE NamedValues(pool, kwargs, j + 1)

\* Whether 1c takes the parameter's default: p[NULL_KEY] or p.get(DEFAULT_KEY)
AcceptsDefault(p) == p.null \/ Truthy(GetDefault(p))

RECURSIVE DefaultLoop_NoRaise(_, _, _, _)
\* The loop over param_pool.values() without its elif branch.
DefaultLoop_NoRaise(pool, kwargs, j, vec) ==
    IF j > Len(pool) THEN [err |-> Ok, vec |-> vec]
    ELSE LET p == pool[j].def
         IN  IF p.required /\ AcceptsDefault(p) /\ ~InKwargs(kwargs, p.name)
             THEN DefaultLoop_NoRaise(pool, kwargs, j + 1,
                                      Insert(vec, pool[j].index, GetDefault(p)))
             ELSE DefaultLoop_NoRaise(pool, kwargs, j + 1, vec)

RECURSIVE DefaultLoop(_, _, _, _)
\* 1c: the loop over param_pool.values(): [err, vec], the error raised or Ok
\* and params_to_submit.
DefaultLoop(pool, kwargs, j, vec) ==
    IF j > Len(pool) THEN [err |-> Ok, vec |-> vec]
    ELSE LET p == pool[j].def
         IN  IF p.required /\ AcceptsDefault(p) /\ ~InKwargs(kwargs, p.name)
             THEN DefaultLoop(pool, kwargs, j + 1,
                              Insert(vec, pool[j].index, GetDefault(p)))
             ELSE IF p.required /\ ~AcceptsDefault(p) /\ ~InKwargs(kwargs, p.name)
             THEN [err |-> MissingError(p.name), vec |-> <<>>]
             ELSE DefaultLoop(pool, kwargs, j + 1, vec)

\* Steps 1a-1c of __call__ going on after an error of the loop over args.
Bind_NoPositionalCheck(params, args, kwargs) ==
    LET pool == param_pool(params, Len(args))
        r2 == KeywordLoop(params, pool, Len(args), kwargs, 1, Len(args))
        params_to_submit == args \o NamedValues(pool, kwargs, 1)
    IN  IF r2 # Ok THEN [err |-> r2, vec |-> <<>>]
        ELSE DefaultLoop(pool, kwargs, 1, params_to_submit)

\* Steps 1a-1c of __call__: [err, vec], the binding error raised (vec is
\* then unused) or Ok and the vector handed to self.__send.
Bind(params, args, kwargs) ==
    LET r1 == PositionalLoop(params, args, Len(kwargs), 1)
        pool == param_pool(params, Len(args))
        r2 == KeywordLoop(params, pool, Len(args), kwargs, 1, Len(args))
        params_to_submit == args \o NamedValues(pool, kwargs, 1)
    IN  IF r1 # Ok THEN [err |-> r1, vec |-> <<>>]
        ELSE IF r2 # Ok THEN [err |-> r2, vec |-> <<>>]
        ELSE DefaultLoop(pool, kwargs, 1, params_to_submit)

(***************************************************************************)
(* translate_fault (api/exceptions.py)                                     *)
(* A fault string is the sequence of its pieces; the strings the code      *)
(* compares with are sequences of the same pieces.                         *)
(***************************************************************************)
ValueErrorPrefix == <<"XMLRPCRelay: ", "exceptions.ValueError: ">>

InternalErrorString == <<"XMLRPC: ", "internal error">>

FunctionNotFoundString == <<"XMLRPCRelay: ", "XMLRPC: ", "function ", "not found">>

UsernamePrefix == <<"XMLRPCRelay: ", "AUTHRPC_EXCEPT: CertDB: Username">>

NotFoundSuffix == <<"not found">>

\* str.startswith
StartsWith(str, prefix) ==
    Len(str) >= Len(prefix) /\ SubSeq(str, 1, Len(prefix)) = prefix

\* str.endswith
EndsWith(str, suffix) ==
    Len(str) >= Len(suffix)
    /\ SubSeq(str, Len(str) - Len(suffix) + 1, Len(str)) = suffix

\* translate_fault giving the value error the whole fault string.
translate_fault_WholeMessage(err) ==
    IF err.faultCode = 8002
    THEN Outcome("ApiClientParameterError", "", <<>>, "", 0, 0)
    ELSE IF err.faultCode = 9007
    THEN Outcome("NameError", "ApiCientAuthError", <<>>, "", 0, 0)
    ELSE IF err.faultCode = 9000 /\ StartsWith(err.faultString, ValueErrorPrefix)
    THEN Outcome("ApiClientValueError", "", err.faultString, "", 0, 0)
    ELSE IF err.faultCode = 9000 /\ err.faultString = InternalErrorString
    THEN Outcome("ApiClientInternalError", "", <<>>, "", 0, 0)
    ELSE IF err.faultCode = 9000 /\ err.faultString = FunctionNotFoundString
    THEN Outcome("ApiClientFunctionNotFoundError", "", <<>>, "", 0, 0)
    ELSE IF /\ err.faultCode = 9000
            /\ StartsWith(err.faultString, UsernamePrefix)
            /\ EndsWith(err.faultString, NotFoundSuffix)
    THEN Outcome("ApiClientUsernameNotFoundError", "", <<>>, "", 0, 0)
    ELSE Outcome("ApiClientUnexpectedError", "", err.faultString, "", err.faultCode, 0)

\* The exception translate_fault returns for a Fault, or the NameError it
\* raises: the class at line 107 is a name the module does not define.
translate_fault(err) ==
    IF err.faultCode = 8002
    THEN Outcome("ApiClientParameterError", "", <<>>, "", 0, 0)
    ELSE IF err.faultCode = 9007
    THEN Outcome("NameError", "ApiCientAuthError", <<>>, "", 0, 0)
    ELSE IF err.faultCode = 9000 /\ StartsWith(err.faultString, ValueErrorPrefix)
    THEN Outcome("ApiClientValueError", "",
                 SubSeq(err.faultString, Len(ValueErrorPrefix) + 1, Len(err.faultString)),
                 "", 0, 0)
    ELSE IF err.faultCode = 9000 /\ err.faultString = InternalErrorString
    THEN Outcome("ApiClientInternalError", "", <<>>, "", 0, 0)
    ELSE IF err.faultCode = 9000 /\ err.faultString = FunctionNotFoundString
    THEN Outcome("ApiClientFunctionNotFoundError", "", <<>>, "", 0, 0)
    ELSE IF /\ err.faultCode = 9000
            /\ StartsWith(err.faultString, UsernamePrefix)
            /\ EndsWith(err.faultString, NotFoundSuffix)
    THEN Outcome("ApiClientUsernameNotFoundError", "", <<>>, "", 0, 0)
    ELSE Outcome("ApiClientUnexpectedError", "", err.faultString, "", err.faultCode, 0)

(***************************************************************************)
(* The inputs                                                              *)
(***************************************************************************)
MethodName == "TestMethod"

\* The names of the parameters of a catalog method, by position.
ParamNames == <<"p1", "p2", "p3", "p4">>

\* A name that is no parameter's.
UnknownName == "zz"

\* The parameter definitions of the binder's catalogs: integer parameters,
\* a required one without a default or with a default that is falsy (0) or
\* not (5), a not-required one without a default.
BindParamDefs(i) ==
    {p \in [name : {ParamNames[i]}, type : {<<"int">>}, null : BOOLEAN,
            required : BOOLEAN, default : {NoDefault, IntV(0), IntV(5)}] :
        ~p.required => p.default = NoDefault}

BindCatalogs ==
    UNION {{ps \in [1..n -> UNION {BindParamDefs(i) : i \in 1..n}] :
                \A i \in 1..n : ps[i].name = ParamNames[i]} : n \in 0..MaxParams}

\* The values of the arguments of a call.
BindValues == {None, IntV(1)}

ArgSeqs(max) == UNION {[1..n -> BindValues] : n \in 0..max}

KwargSeqs(params, max) ==
    LET names == {params[i].name : i \in 1..Len(params)} \cup {UnknownName}
        pairs == [name : names, value : BindValues]
    IN  UNION {{s \in [1..n -> pairs] :
                    \A a, b \in 1..n : a # b => s[a].name # s[b].name}
               : n \in 0..max}

\* A call has at most one argument more than the method has parameters.
CallLimit(params) == Len(params) + 1

\* The faults the transport answers a bound call with.
BindFaults ==
    {[faultCode |-> 8002, faultString |-> <<"wrong number of parameters">>],
     [faultCode |-> 9007, faultString |-> <<"access denied">>],
     [faultCode |-> 9000, faultString |-> <<"XMLRPCRelay: ", "unknown">>]}

NoCall == [name |-> "", args |-> <<>>, kwargs |-> <<>>]

\* No method object: nothing has been looked up on the client.
NoMethod == [kind |-> "none", name |-> <<>>]

InitLookupIdle ==
    /\ allow_unsupported = FALSE
    /\ attr = <<>>
    /\ method = NoMethod

InitFaultIdle ==
    /\ tfErr = [faultCode |-> 0, faultString |-> <<>>]
    /\ tfResults = <<>>

\* The operations above the RPC layer at rest.
InitCreateIdle ==
    /\ cuServer = [profile |-> FALSE, client |-> FALSE]
    /\ cuArgs = [password |-> "none", generate_client |-> FALSE]
    /\ cuPc = "idle"
    /\ cuLog = <<>>
    /\ cuOutcome = "none"

InitGroupIdle ==
    /\ grpServer = <<>>
    /\ grpOp = [op |-> "none", name |-> 0]
    /\ grpOutcome = "none"

InitGenerateIdle ==
    /\ gpRetries = 0
    /\ gpTried = 0
    /\ gpFailed = 0
    /\ gpPc = "idle"

InitPasswordIdle ==
    /\ pwArg = [type |-> "NoneType", chars |-> <<>>]
    /\ pwResult = "none"

InitClientArgsIdle ==
    /\ vcArgs = <<>>
    /\ vcResult = [kind |-> "none", check |-> ""]

InitSetPasswordIdle ==
    /\ slpArgs = <<>>
    /\ slpPc = "idle"
    /\ slpCalls = <<>>
    /\ slpOutcome = "none"

InitProfileIdle ==
    /\ profClass = "none"
    /\ profAttrs = <<>>
    /\ profType = "none"
    /\ profRaised = "none"

InitResolveIdle ==
    /\ rtAttrs = <<>>
    /\ rtTypes = <<>>

InitHighIdle ==
    /\ InitCreateIdle
    /\ InitGroupIdle
    /\ InitGenerateIdle
    /\ InitPasswordIdle
    /\ InitClientArgsIdle
    /\ InitSetPasswordIdle
    /\ InitProfileIdle
    /\ InitResolveIdle

(***************************************************************************)
(* The binder's state machine                                              *)
(***************************************************************************)
InitValidateIdle ==
    /\ vArg = None
    /\ vParam = [name |-> "", type |-> <<"int">>, null |-> FALSE,
                 required |-> FALSE, default |-> NoDefault]
    /\ vResult = NoOutcome

InitBind ==
    /\ METHODS \in {(MethodName :> [params |-> ps]) : ps \in BindCatalogs}
    /\ pc = "idle"
    /\ call = NoCall
    /\ outcome = NoOutcome
    /\ sends = <<>>
    /\ InitValidateIdle
    /\ InitLookupIdle
    /\ InitFaultIdle
    /\ InitHighIdle

\* __call__ writing each parameter's index into the catalog's own
\* dictionaries instead of into copies of them.
Call_IndexInPlace(args, kwargs) ==
    /\ pc = "idle"
    /\ LET b == Bind(METHODS[MethodName].params, args, kwargs)
       IN  /\ call' = [name |-> MethodName, args |-> args, kwargs |-> kwargs]
           /\ IF b.err = Ok
              THEN /\ sends' = Append(sends, b.vec)
                   /\ outcome' = NoOutcome
                   /\ pc' = "sent"
              ELSE /\ sends' = sends
                   /\ outcome' = b.err
                   /\ pc' = "done"
    /\ METHODS' = [METHODS EXCEPT ![MethodName].params =
                      [i \in 1..Len(@) |->
                          [name |-> @[i].name, type |-> @[i].type,
                           null |-> @[i].null, required |-> @[i].required,
                           default |-> @[i].default, index |-> i - 1]]]
    /\ UNCHANGED <<validateVars, lookupVars, faultVars, highVars>>

\* method(*args, **kwargs) up to the invocation of self.__send
Call(args, kwargs) ==
    /\ pc = "idle"
    /\ LET b == Bind(METHODS[MethodName].params, args, kwargs)
       IN  /\ call' = [name |-> MethodName, args |-> args, kwargs |-> kwargs]
           /\ IF b.err = Ok
              THEN /\ sends' = Append(sends, b.vec)
                   /\ outcome' = NoOutcome
                   /\ pc' = "sent"
              ELSE /\ sends' = sends
                   /\ outcome' = b.err
                   /\ pc' = "done"
    /\ UNCHANGED <<METHODS, validateVars, lookupVars, faultVars, highVars>>

\* A caller calls the method with some arguments
CallMethod ==
    /\ pc = "idle"
    /\ \E kwargs \in KwargSeqs(METHODS[MethodName].params,
                                CallLimit(METHODS[MethodName].params)) :
         \E args \in ArgSeqs(CallLimit(METHODS[MethodName].params) - Len(kwargs)) :
           Call(args, kwargs)

\* self.__send returns: __call__ returns its result
SendReturns ==
    /\ pc = "sent"
    /\ outcome' = Outcome("result", "", <<>>, "", 0, 0)
    /\ pc' = "done"
    /\ UNCHANGED <<METHODS, call, sends, validateVars, lookupVars, faultVars, highVars>>

\* self.__send raises a Fault and __call__ sends the vector again.
SendFaults_Retry(fault) ==
    /\ pc = "sent"
    /\ sends' = Append(sends, sends[1])
    /\ UNCHANGED <<METHODS, pc, call, outcome, validateVars, lookupVars, faultVars, highVars>>

\* self.__send raises a Fault: __call__ raises what translate_fault makes
\* of it (or what translate_fault raises)
SendFaults(fault) ==
    /\ pc = "sent"
    /\ outcome' = translate_fault(fault)
    /\ pc' = "done"
    /\ UNCHANGED <<METHODS, call, sends, validateVars, lookupVars, faultVars, highVars>>

\* The caller goes on to its next call
NextCall ==
    /\ pc = "done"
    /\ pc' = "idle"
    /\ call' = NoCall
    /\ outcome' = NoOutcome
    /\ sends' = <<>>
    /\ UNCHANGED <<METHODS, validateVars, lookupVars, faultVars, highVars>>

NextBind ==
    \/ CallMethod
    \/ SendReturns
    \/ \E fault \in BindFaults : SendFaults(fault)
    \/ NextCall

SpecBind == InitBind /\ [][NextBind]_vars

(***************************************************************************)
(* validate_param on its own                                               *)
(***************************************************************************)
\* The runtime types of the elements of the containers offered.
ElemTypes == {"str", "int", "bool"}

ValidateValues ==
    {None, BoolV(0), BoolV(1), IntV(0), IntV(1), FloatV(0), FloatV(1),
     StrV(1, 0), StrV(1, 1)}
    \cup UNION {{ListV(ts) : ts \in [1..n -> ElemTypes]} : n \in 0..MaxItems}
    \cup UNION {{DictV(ks, vs) : ks \in [1..n -> ElemTypes], vs \in [1..n -> ElemTypes]}
                : n \in 0..MaxItems}

DeclaredTypes ==
    {<<"bool">>, <<"int">>, <<"float">>, <<"str">>, <<"list">>, <<"dict">>,
     <<"list", "[", "str", "]">>, <<"list", "[", "int", "]">>,
     <<"dict", "[", "str", "]">>, <<"dict", "[", "int", "]">>}

ValidateParamDefs ==
    [name : {"p1"}, type : DeclaredTypes, null : BOOLEAN,
     required : {TRUE}, default : {NoDefault}]

InitBindIdle ==
    /\ METHODS = (MethodName :> [params |-> <<>>])
    /\ pc = "idle"
    /\ call = NoCall
    /\ outcome = NoOutcome
    /\ sends = <<>>

InitValidate ==
    /\ InitBindIdle
    /\ vArg \in ValidateValues
    /\ vParam \in ValidateParamDefs
    /\ vResult = NoOutcome
    /\ InitLookupIdle
    /\ InitFaultIdle
    /\ InitHighIdle

\* _SupportedMethod.validate_param(vArg, vParam); a TypeError raised is the
\* result recorded.
Validate ==
    /\ vResult = NoOutcome
    /\ vResult' = validate_param(vArg, vParam)
    /\ UNCHANGED <<vArg, vParam, bindVars, lookupVars, faultVars, highVars>>

NextValidate == Validate

SpecValidate == InitValidate /\ [][NextValidate]_vars

(***************************************************************************)
(* RpcClient.__getattr__: looking a method up on the client                *)
(* A method name is the sequence of the parts that its dots separate.      *)
(***************************************************************************)
\* AttributeError("'RpcClient' object has no attribute
\* '<name.split('.')[0]>'")
AttributeError(name) == Outcome("AttributeError", "", <<name[1]>>, "", 0, 0)

\* _SupportedMethod.__init__ accepting every name.
SupportedMethod_init_NoCheck(methods, name) == Ok

\* _SupportedMethod.__init__(send, name): Ok, or the error raised.
SupportedMethod_init(methods, name) ==
    IF name \notin DOMAIN methods THEN AttributeError(name) ELSE Ok

\* The names a catalog may have as keys, and the names looked up.
CatalogNames == {<<"TestMethod">>, <<"GetUsers">>, <<"system", "listMethods">>}

LookupNames == CatalogNames \cup {<<"not_a_name">>, <<"system", "nothing">>}

\* The parameter lists of the methods of these catalogs.
LookupParams ==
    {<<>>,
     <<[name |-> "p1", type |-> <<"int">>, null |-> FALSE, required |-> TRUE,
        default |-> NoDefault]>>}

LookupCatalogs ==
    UNION {[keys -> {[params |-> ps] : ps \in LookupParams}]
           : keys \in SUBSET CatalogNames}

InitLookup ==
    /\ METHODS \in LookupCatalogs
    /\ allow_unsupported \in BOOLEAN
    /\ attr = <<>>
    /\ method = NoMethod
    /\ pc = "idle"
    /\ call = NoCall
    /\ outcome = NoOutcome
    /\ sends = <<>>
    /\ InitValidateIdle
    /\ InitFaultIdle
    /\ InitHighIdle

\* client.<name>: RpcClient.__getattr__(name)
GetAttr(name) ==
    /\ pc = "idle"
    /\ attr' = name
    /\ IF allow_unsupported
       THEN /\ method' = [kind |-> "raw", name |-> name]
            /\ outcome' = NoOutcome
            /\ pc' = "looked"
       ELSE IF SupportedMethod_init(METHODS, name) = Ok
       THEN /\ method' = [kind |-> "supported", name |-> name]
            /\ outcome' = NoOutcome
            /\ pc' = "looked"
       ELSE /\ method' = NoMethod
            /\ outcome' = SupportedMethod_init(METHODS, name)
            /\ pc' = "done"
    /\ UNCHANGED <<METHODS, call, sends, allow_unsupported, validateVars, faultVars, highVars>>

\* Calling the _SupportedMethod looked up, up to the invocation of
\* self.__send; METHODS[self.__name] of a name that is no key is a KeyError.
CallSupported ==
    /\ pc = "looked"
    /\ method.kind = "supported"
    /\ IF method.name \notin DOMAIN METHODS
       THEN /\ call' = [name |-> method.name, args |-> <<>>, kwargs |-> <<>>]
            /\ outcome' = Outcome("KeyError", "", method.name, "", 0, 0)
            /\ pc' = "done"
            /\ sends' = sends
       ELSE \E kwargs \in KwargSeqs(METHODS[method.name].params,
                                    CallLimit(METHODS[method.name].params)) :
              \E args \in ArgSeqs(CallLimit(METHODS[method.name].params) - Len(kwargs)) :
                LET b == Bind(METHODS[method.name].params, args, kwargs)
                IN  /\ call' = [name |-> method.name, args |-> args, kwargs |-> kwargs]
                    /\ IF b.err = Ok
                       THEN /\ sends' = Append(sends, b.vec)
                            /\ outcome' = NoOutcome
                            /\ pc' = "sent"
                       ELSE /\ sends' = sends
                            /\ outcome' = b.err
                            /\ pc' = "done"
    /\ UNCHANGED <<METHODS, validateVars, lookupVars, faultVars, highVars>>

\* Calling the raw ServerProxy method looked up in allow_unsupported mode:
\* the arguments go to the transport as they are.
CallRaw ==
    /\ pc = "looked"
    /\ method.kind = "raw"
    /\ \E args \in ArgSeqs(1) :
         /\ call' = [name |-> method.name, args |-> args, kwargs |-> <<>>]
         /\ sends' = Append(sends, args)
    /\ outcome' = NoOutcome
    /\ pc' = "sent"
    /\ UNCHANGED <<METHODS, validateVars, lookupVars, faultVars, highVars>>

\* The transport raises a Fault to a _SupportedMethod
SupportedFaults(fault) ==
    /\ method.kind = "supported"
    /\ SendFaults(fault)

\* The transport raises a Fault to a raw method: the Fault is the outcome
RawFaults(fault) ==
    /\ pc = "sent"
    /\ method.kind = "raw"
    /\ outcome' = Outcome("Fault", "", fault.faultString, "", fault.faultCode, 0)
    /\ pc' = "done"
    /\ UNCHANGED <<METHODS, call, sends, validateVars, lookupVars, faultVars, highVars>>

NextLookup ==
    \/ \E name \in LookupNames : GetAttr(name)
    \/ CallSupported
    \/ CallRaw
    \/ SendReturns
    \/ \E fault \in BindFaults : SupportedFaults(fault)
    \/ \E fault \in BindFaults : RawFaults(fault)
    \/ NextCall

SpecLookup == InitLookup /\ [][NextLookup]_vars

(***************************************************************************)
(* translate_fault on its own                                              *)
(***************************************************************************)
FaultCodes == {8002, 9007, 9000, 9001}

\* The pieces of the fault strings: those of the strings the code compares
\* with, and one of its own.
FaultPieces ==
    {"XMLRPCRelay: ", "exceptions.ValueError: ", "XMLRPC: ", "internal error",
     "function ", "not found", "AUTHRPC_EXCEPT: CertDB: Username", " 'bob' "}

FaultStrings == UNION {[1..n -> FaultPieces] : n \in 0..MaxPieces}

InitFault ==
    /\ InitBindIdle
    /\ InitValidateIdle
    /\ InitLookupIdle
    /\ InitHighIdle
    /\ tfErr \in [faultCode : FaultCodes, faultString : FaultStrings]
    /\ tfResults = <<>>

\* translate_fault(tfErr), once more on the same Fault
Translate ==
    /\ Len(tfResults) < MaxInvocations
    /\ tfResults' = Append(tfResults, translate_fault(tfErr))
    /\ UNCHANGED <<tfErr, bindVars, validateVars, lookupVars, highVars>>

NextFault == Translate

SpecFault == InitFault /\ [][NextFault]_vars

(***************************************************************************)
(* UserOperations.create_user (users.py) for one username, against a       *)
(* server that holds the username's profile and client record.  cuLog is   *)
(* the sequence of the remote calls that change or list the server's       *)
(* state.                                                                  *)
(***************************************************************************)
\* The passwords given: none, one that is complex, one that is not.
CreatePasswords == {"none", "complex", "weak"}

CreateArgs == [password : CreatePasswords, generate_client : BOOLEAN]

InitCreate ==
    /\ cuServer \in [profile : BOOLEAN, client : BOOLEAN, local_auth : BOOLEAN]
    /\ cuArgs = [password |-> "none", generate_client |-> FALSE]
    /\ cuPc = "idle"
    /\ cuLog = <<>>
    /\ cuOutcome = "none"
    /\ InitBindIdle
    /\ InitValidateIdle
    /\ InitLookupIdle
    /\ InitFaultIdle
    /\ InitGroupIdle
    /\ InitGenerateIdle
    /\ InitPasswordIdle
    /\ InitClientArgsIdle
    /\ InitSetPasswordIdle
    /\ InitProfileIdle
    /\ InitResolveIdle

\* The except clause of create_user: UserPropDelAll, which removes the
\* profile, and AccessServerProfileCreateError raised from the error.
CreateAbort(log) ==
    /\ cuServer' = [cuServer EXCEPT !.profile = FALSE]
    /\ cuLog' = log \o <<"UserPropDelAll">>
    /\ cuOutcome' = "AccessServerProfileCreateError"
    /\ cuPc' = "done"

\* create_user(username, password, generate_client=...) up to the first
\* UserPropPut of _create_profile
CreateUserStart(args) ==
    /\ cuPc = "idle"
    /\ cuArgs' = args
    /\ IF args.password # "none" /\ ~cuServer.local_auth
       THEN cuOutcome' = "AccessServerConfigError" /\ cuPc' = "done"
       ELSE IF cuServer.profile
       THEN cuOutcome' = "AccessServerProfileExistsError" /\ cuPc' = "done"
       ELSE cuOutcome' = "none" /\ cuPc' = "creating"
    /\ UNCHANGED <<cuServer, cuLog, OtherThanCreate>>

\* _create_profile: the UserPropPut calls succeed, the profile exists
CreateProfilePut ==
    /\ cuPc = "creating"
    /\ cuServer' = [cuServer EXCEPT !.profile = TRUE]
    /\ cuLog' = cuLog \o <<"UserPropPut">>
    /\ cuPc' = "created"
    /\ UNCHANGED <<cuArgs, cuOutcome, OtherThanCreate>>

\* _create_profile: a UserPropPut faults; its except clause deletes the
\* profile and raises AccessServerProfileCreateError
CreateProfilePutFaults ==
    /\ cuPc = "creating"
    /\ CreateAbort(cuLog \o <<"UserPropPut">>)
    /\ UNCHANGED <<cuArgs, OtherThanCreate>>

\* password is None: nothing to set
NoPassword ==
    /\ cuPc = "created"
    /\ cuArgs.password = "none"
    /\ cuPc' = "client"
    /\ UNCHANGED <<cuServer, cuArgs, cuLog, cuOutcome, OtherThanCreate>>

\* self._sacli.SetLocalPassword(username, password, ''): a password that is
\* not complex raises ApiClientPasswordComplexityError before any remote
\* call; otherwise the call returns or raises what the server's answer
\* makes it raise
SetPassword(answer) ==
    /\ cuPc = "created"
    /\ cuArgs.password # "none"
    /\ IF cuArgs.password = "weak"
       THEN CreateAbort(cuLog)
       ELSE CASE answer = "ok" ->
                    /\ cuLog' = cuLog \o <<"SetLocalPassword">>
                    /\ cuPc' = "client"
                    /\ UNCHANGED <<cuServer, cuOutcome>>
              [] answer = "ApiClientParameterError" ->
                    /\ cuLog' = cuLog \o <<"SetLocalPassword">>
                    /\ cuPc' = "fallback"
                    /\ UNCHANGED <<cuServer, cuOutcome>>
              [] OTHER -> CreateAbort(cuLog \o <<"SetLocalPassword">>)
    /\ UNCHANGED <<cuArgs, OtherThanCreate>>

\* After ApiClientParameterError: is_password_complex, then UserPropPut of
\* the password's digest, which returns or faults
FallbackPut(faults) ==
    /\ cuPc = "fallback"
    /\ IF faults
       THEN CreateAbort(cuLog \o <<"UserPropPut">>)
       ELSE /\ cuLog' = cuLog \o <<"UserPropPut">>
            /\ cuPc' = "client"
            /\ UNCHANGED <<cuServer, cuOutcome>>
    /\ UNCHANGED <<cuArgs, OtherThanCreate>>

\* generate_client is false: return self.get_user(username)
NoClient ==
    /\ cuPc = "client"
    /\ ~cuArgs.generate_client
    /\ cuOutcome' = "returned"
    /\ cuPc' = "done"
    /\ UNCHANGED <<cuServer, cuArgs, cuLog, OtherThanCreate>>

\* self.create_client_for_user(username): a client record that is there
\* raises AccessServerClientExistsError; otherwise AutoGenerateOnBehalfOf
\* makes the record, or faults, or returns without the record being there
\* (AccessServerClientCreateError).  Only the fault is an
\* ApiClientBaseException, the one class the except clause names.
CreateClient(answer) ==
    /\ cuPc = "client"
    /\ cuArgs.generate_client
    /\ IF cuServer.client
       THEN /\ cuLog' = cuLog \o <<"EnumClients">>
            /\ cuOutcome' = "AccessServerClientExistsError"
            /\ cuPc' = "done"
            /\ UNCHANGED cuServer
       ELSE CASE answer = "made" ->
                    /\ cuServer' = [cuServer EXCEPT !.client = TRUE]
                    /\ cuLog' = cuLog \o <<"EnumClients", "AutoGenerateOnBehalfOf",
                                           "EnumClients">>
                    /\ cuOutcome' = "returned"
                    /\ cuPc' = "done"
              [] answer = "not_made" ->
                    /\ cuLog' = cuLog \o <<"EnumClients", "AutoGenerateOnBehalfOf",
                                           "EnumClients">>
                    /\ cuOutcome' = "AccessServerClientCreateError"
                    /\ cuPc' = "done"
                    /\ UNCHANGED cuServer
              [] OTHER ->
                    CreateAbort(cuLog \o <<"EnumClients", "AutoGenerateOnBehalfOf">>)
    /\ UNCHANGED <<cuArgs, OtherThanCreate>>

\* The caller goes on to its next call of create_user, on the server as
\* the last call left it
CreateNext ==
    /\ cuPc = "done"
    /\ cuPc' = "idle"
    /\ cuLog' = <<>>
    /\ cuOutcome' = "none"
    /\ cuArgs' = [password |-> "none", generate_client |-> FALSE]
    /\ UNCHANGED <<cuServer, OtherThanCreate>>

NextCreate ==
    \/ \E args \in CreateArgs : CreateUserStart(args)
    \/ CreateProfilePut
    \/ CreateProfilePutFaults
    \/ NoPassword
    \/ \E answer \in {"ok", "ApiClientParameterError", "ApiClientPasswordResetError"} :
         SetPassword(answer)
    \/ \E faults \in BOOLEAN : FallbackPut(faults)
    \/ NoClient
    \/ \E answer \in {"made", "not_made", "fault"} : CreateClient(answer)
    \/ CreateNext

SpecCreate == InitCreate /\ [][NextCreate]_vars

(***************************************************************************)
(* GroupOperations.get_group, delete_group and ban_group (groups.py)       *)
(* against a server that holds, for each name, no profile or a profile     *)
(* with its group_declare and prop_deny properties.                        *)
(***************************************************************************)
GroupNames == {"g1", "g2"}

NoProfile == [present |-> FALSE]

ServerProfiles ==
    {NoProfile} \cup [present : {TRUE},
                      group_declare : {"none", "true", "false"},
                      prop_deny : BOOLEAN]

\* Profile.is_group: props.get('group_declare', '').lower() == 'true'
is_group(profile) == profile.group_declare = "true"

\* The type _resolve_type gives, as far as get_group looks at it
ProfileIsGroupType(profile) == profile.group_declare = "true"

\* GroupProfile.__init__: raises when the properties are not a group's
GroupProfile_init(profile) ==
    IF ~is_group(profile) THEN "AccessServerProfileIntegrityError"
    ELSE "GroupProfile"

\* get_group: what it returns or raises
get_group(server, name) ==
    IF ~server[name].present THEN "AccessServerProfileNotFoundError"
    ELSE IF ProfileIsGroupType(server[name])
         THEN "AccessServerProfileExistsError"
         ELSE GroupProfile_init(server[name])

InitGroup ==
    /\ grpServer \in [GroupNames -> ServerProfiles]
    /\ grpOp = [op |-> "none", name |-> 0]
    /\ grpOutcome = "none"
    /\ InitBindIdle
    /\ InitValidateIdle
    /\ InitLookupIdle
    /\ InitFaultIdle
    /\ InitCreateIdle
    /\ InitGenerateIdle
    /\ InitPasswordIdle
    /\ InitClientArgsIdle
    /\ InitSetPasswordIdle
    /\ InitProfileIdle
    /\ InitResolveIdle

GetGroup(name) ==
    /\ grpOp' = [op |-> "get_group", name |-> name]
    /\ grpOutcome' = get_group(grpServer, name)
    /\ UNCHANGED <<grpServer, OtherThanGroup>>

\* delete_group: get_group, then _delete_profile (UserPropDelAll and the
\* check that the profile is gone)
DeleteGroup(name) ==
    /\ grpOp' = [op |-> "delete_group", name |-> name]
    /\ IF get_group(grpServer, name) = "GroupProfile"
       THEN /\ grpServer' = [grpServer EXCEPT ![name] = NoProfile]
            /\ grpOutcome' = "deleted"
       ELSE /\ grpOutcome' = get_group(grpServer, name)
            /\ UNCHANGED grpServer
    /\ UNCHANGED OtherThanGroup

\* ban_group: get_group, then _ban_profile (UserPropPut of prop_deny)
BanGroup(name) ==
    /\ grpOp' = [op |-> "ban_group", name |-> name]
    /\ IF get_group(grpServer, name) = "GroupProfile"
       THEN /\ grpServer' = [grpServer EXCEPT ![name].prop_deny = TRUE]
            /\ grpOutcome' = "banned"
       ELSE /\ grpOutcome' = get_group(grpServer, name)
            /\ UNCHANGED grpServer
    /\ UNCHANGED OtherThanGroup

NextGroup ==
    \/ \E name \in GroupNames : GetGroup(name)
    \/ \E name \in GroupNames : DeleteGroup(name)
    \/ \E name \in GroupNames : BanGroup(name)

SpecGroup == InitGroup /\ [][NextGroup]_vars

(***************************************************************************)
(* generate_random_password (utils.py).  Each candidate is drawn with      *)
(* secrets.choice, so whether it passes is_password_complex is a choice of *)
(* the step.  gpFailed counts the candidates that failed; the code keeps   *)
(* no such count.                                                          *)
(***************************************************************************)
MaxRetries == 4

\* The model stops drawing failing candidates at this count.
MaxCandidates == 12

InitGenerate ==
    /\ gpRetries = 0
    /\ gpTried = 0
    /\ gpFailed = 0
    /\ gpPc = "idle"
    /\ InitBindIdle
    /\ InitValidateIdle
    /\ InitLookupIdle
    /\ InitFaultIdle
    /\ InitCreateIdle
    /\ InitGroupIdle
    /\ InitPasswordIdle
    /\ InitClientArgsIdle
    /\ InitSetPasswordIdle
    /\ InitProfileIdle
    /\ InitResolveIdle

\* generate_random_password(length, retries) up to the loop
Generate(length, retries) ==
    /\ gpPc = "idle"
    /\ gpRetries' = retries
    /\ gpTried' = 0
    /\ gpFailed' = 0
    /\ gpPc' = IF length < 8 THEN "ValueError" ELSE "loop"
    /\ UNCHANGED OtherThanGenerate

\* if tried >= retries: raise PasswordGenerationComplexityTimeout
GenerateTimeout ==
    /\ gpPc = "loop"
    /\ gpTried >= gpRetries
    /\ gpPc' = "PasswordGenerationComplexityTimeout"
    /\ UNCHANGED <<gpRetries, gpTried, gpFailed, OtherThanGenerate>>

\* The candidate passes: is_password_complex returns True, tried += 1, the
\* loop ends and the password is returned
CandidatePasses ==
    /\ gpPc = "loop"
    /\ gpTried < gpRetries
    /\ gpTried' = gpTried + 1
    /\ gpPc' = "returned"
    /\ UNCHANGED <<gpRetries, gpFailed, OtherThanGenerate>>

\* The candidate fails: is_password_complex raises, and the except clause
\* continues the loop before tried += 1
CandidateFails ==
    /\ gpPc = "loop"
    /\ gpTried < gpRetries
    /\ gpFailed < MaxCandidates
    /\ gpFailed' = gpFailed + 1
    /\ UNCHANGED <<gpRetries, gpTried, gpPc, OtherThanGenerate>>

NextGenerate ==
    \/ \E length \in {7, 8, 16}, retries \in 0..MaxRetries : Generate(length, retries)
    \/ GenerateTimeout
    \/ CandidatePasses
    \/ CandidateFails

SpecGenerate == InitGenerate /\ [][NextGenerate]_vars

(***************************************************************************)
(* RemoteSacli.is_password_complex (cli.py).  A string is the sequence of  *)
(* its characters; a character is named by a string: "a" and "A" are the   *)
(* ASCII letters, "1" a digit, "!" an allowed symbol, ":" a symbol that is *)
(* not allowed, "Dz" the titlecase letter U+01C5 (upper "DZ" U+01C4, lower *)
(* "dz" U+01C6) and "kra" the lowercase letter U+0138, which has no        *)
(* uppercase form.                                                         *)
(***************************************************************************)
MaxHead == 4

PasswordChars == {"a", "A", "1", "!", ":", "Dz", "kra"}

\* str.upper and str.lower, character by character
UpperChar(ch) ==
    CASE ch = "a" -> "A"
      [] ch = "Dz" -> "DZ"
      [] ch = "dz" -> "DZ"
      [] OTHER -> ch

LowerChar(ch) ==
    CASE ch = "A" -> "a"
      [] ch = "Dz" -> "dz"
      [] ch = "DZ" -> "dz"
      [] OTHER -> ch

Upper(s) == [i \in 1..Len(s) |-> UpperChar(s[i])]

Lower(s) == [i \in 1..Len(s) |-> LowerChar(s[i])]

Contains(s, chars) == \E i \in 1..Len(s) : s[i] \in chars

\* The characters of '0123456789' and of the symbols of line 137
DigitChars == {"1"}

SymbolChars == {"!"}

PasswordComplexityError == "ApiClientPasswordComplexityError"

is_password_complex(new_pass) ==
    IF new_pass.type = "NoneType" THEN PasswordComplexityError
    ELSE IF new_pass.type # "str" THEN "TypeError"
    ELSE IF Len(new_pass.chars) < 8 THEN PasswordComplexityError
    ELSE IF Upper(new_pass.chars) = new_pass.chars
            \/ Lower(new_pass.chars) = new_pass.chars
         THEN PasswordComplexityError
    ELSE IF ~Contains(new_pass.chars, SymbolChars)
            \/ ~Contains(new_pass.chars, DigitChars)
         THEN PasswordComplexityError
    ELSE "True"

\* The strings given: every string of up to MaxHead characters, alone or
\* followed by a run of one character that brings its length to about 8
Heads == UNION {[1..n -> PasswordChars] : n \in 0..MaxHead}

Repeat(ch, k) == [i \in 1..k |-> ch]

PadLengths == {0, 7 - MaxHead, 8 - MaxHead, 9 - MaxHead}

PasswordStrings ==
    {h \o Repeat(ch, k) : h \in Heads, ch \in {"a", "1"}, k \in PadLengths}

PasswordArgs ==
    {[type |-> "NoneType", chars |-> <<>>], [type |-> "int", chars |-> <<>>]}
        \cup {[type |-> "str", chars |-> s] : s \in PasswordStrings}

InitPassword ==
    /\ pwArg \in PasswordArgs
    /\ pwResult = "none"
    /\ InitBindIdle
    /\ InitValidateIdle
    /\ InitLookupIdle
    /\ InitFaultIdle
    /\ InitCreateIdle
    /\ InitGroupIdle
    /\ InitGenerateIdle
    /\ InitClientArgsIdle
    /\ InitSetPasswordIdle
    /\ InitProfileIdle
    /\ InitResolveIdle

CheckPassword ==
    /\ pwResult = "none"
    /\ pwResult' = is_password_complex(pwArg)
    /\ UNCHANGED <<pwArg, OtherThanPassword>>

NextPassword == CheckPassword

SpecPassword == InitPassword /\ [][NextPassword]_vars

(***************************************************************************)
(* validate_endpoint and validate_client_args (client.py).  An endpoint    *)
(* that is a string is given by what urllib.parse.urlparse makes of it:    *)
(* ValueError (as for 'https://['), or the parsed parts that                *)
(* validate_endpoint reads.  A username or password that is a string is    *)
(* the sequence of its characters.                                         *)
(***************************************************************************)
MaxNameLen == 2

ParsedUrls ==
    [raises : {FALSE},
     scheme : {"https", "http"},
     username : {"None", "u"},
     password : {"None", "p"},
     hostname : {"None", "", "h"},
     params : {"", "x"},
     fragment : {"", "x"},
     query : {"", "x"},
     port_valid : BOOLEAN]

UrlParseErrors == {[raises |-> TRUE]}

\* validate_endpoint(url): True, False, or the ValueError of urlparse
validate_endpoint(parsed) ==
    IF parsed.raises THEN "ValueError"
    ELSE IF parsed.scheme # "https" THEN "False"
    ELSE IF parsed.username # "None" \/ parsed.password # "None" THEN "False"
    ELSE IF parsed.hostname = "None" \/ parsed.hostname = "" THEN "False"
    ELSE IF parsed.params # "" \/ parsed.fragment # "" \/ parsed.query # ""
         THEN "False"
    ELSE IF ~parsed.port_valid THEN "False"
    ELSE "True"

ConfigurationError(check) ==
    [kind |-> "ApiClientConfigurationError", check |-> check]

Returned(value) == [kind |-> "returned", check |-> value]

Raised(kind) == [kind |-> kind, check |-> ""]

HasColon(s) == \E i \in 1..Len(s) : s[i] = ":"

validate_client_args(endpoint, username, password) ==
    IF endpoint.type = "NoneType" THEN ConfigurationError("endpoint unset")
    ELSE IF endpoint.type # "str" THEN ConfigurationError("endpoint not a string")
    ELSE IF validate_endpoint(endpoint.url) = "ValueError" THEN Raised("ValueError")
    ELSE IF validate_endpoint(endpoint.url) = "False"
         THEN ConfigurationError("endpoint invalid")
    ELSE IF username.type = "NoneType" THEN ConfigurationError("username unset")
    ELSE IF username.type # "str" THEN ConfigurationError("username not a string")
    ELSE IF HasColon(username.chars) THEN ConfigurationError("username contains :")
    ELSE IF password.type = "NoneType" THEN ConfigurationError("password unset")
    ELSE IF password.type # "str" THEN ConfigurationError("password not a string")
    ELSE IF HasColon(password.chars) THEN ConfigurationError("password contains :")
    ELSE Returned("True")

EndpointArgs ==
    {[type |-> "NoneType", url |-> [raises |-> FALSE]],
     [type |-> "int", url |-> [raises |-> FALSE]]}
        \cup {[type |-> "str", url |-> u] : u \in ParsedUrls \cup UrlParseErrors}

CredentialStrings == UNION {[1..n -> {"u", ":"}] : n \in 0..MaxNameLen}

CredentialArgs ==
    {[type |-> "NoneType", chars |-> <<>>], [type |-> "int", chars |-> <<>>]}
        \cup {[type |-> "str", chars |-> s] : s \in CredentialStrings}

ClientArgs == [endpoint : EndpointArgs, username : CredentialArgs,
               password : CredentialArgs]

InitClientArgs ==
    /\ vcArgs \in ClientArgs
    /\ vcResult = [kind |-> "none", check |-> ""]
    /\ InitBindIdle
    /\ InitValidateIdle
    /\ InitLookupIdle
    /\ InitFaultIdle
    /\ InitCreateIdle
    /\ InitGroupIdle
    /\ InitGenerateIdle
    /\ InitPasswordIdle
    /\ InitSetPasswordIdle
    /\ InitProfileIdle
    /\ InitResolveIdle

ValidateClientArgs ==
    /\ vcResult = [kind |-> "none", check |-> ""]
    /\ vcResult' = validate_client_args(vcArgs.endpoint, vcArgs.username,
                                        vcArgs.password)
    /\ UNCHANGED <<vcArgs, OtherThanClientArgs>>

NextClientArgs == ValidateClientArgs

SpecClientArgs == InitClientArgs /\ [][NextClientArgs]_vars

(***************************************************************************)
(* RemoteSacli.SetLocalPassword (cli.py).  slpCalls is the sequence of     *)
(* the calls of self._RpcClient.SetLocalPassword, each with the answer it  *)
(* got: a status and a reason, or an error raised by the call.             *)
(***************************************************************************)
NoCurrentPasswordReason ==
    "error verifying current password: no current password is defined"

IncorrectPasswordReason ==
    "error verifying current password: failed to enter correct current password"

SetPasswordReplies ==
    {[raises |-> FALSE, status |-> TRUE, reason |-> ""],
     [raises |-> FALSE, status |-> FALSE, reason |-> NoCurrentPasswordReason],
     [raises |-> FALSE, status |-> FALSE, reason |-> IncorrectPasswordReason],
     [raises |-> FALSE, status |-> FALSE, reason |-> "other"],
     [raises |-> TRUE, status |-> FALSE, reason |-> ""]}

NewPasswords ==
    {[type |-> "NoneType", chars |-> <<>>],
     [type |-> "int", chars |-> <<>>],
     [type |-> "str", chars |-> <<"a">>],
     [type |-> "str", chars |-> <<"A", "a", "1", "a", "a", "a", "a", "a">>],
     [type |-> "str", chars |-> <<"A", "a", "1", "!", "a", "a", "a", "a">>],
     [type |-> "str", chars |-> <<"!", "1", "a", "A", "A", "A", "A", "A", "A">>]}

SetPasswordArgs ==
    [new_pass : NewPasswords, cur_pass : {"None", "", "old"},
     ignore_checks : BOOLEAN]

InitSetPassword ==
    /\ slpArgs = <<>>
    /\ slpPc = "idle"
    /\ slpCalls = <<>>
    /\ slpOutcome = "none"
    /\ InitBindIdle
    /\ InitValidateIdle
    /\ InitLookupIdle
    /\ InitFaultIdle
    /\ InitCreateIdle
    /\ InitGroupIdle
    /\ InitGenerateIdle
    /\ InitPasswordIdle
    /\ InitClientArgsIdle
    /\ InitProfileIdle
    /\ InitResolveIdle

\* The test of lines 293-296.  The mutant goes on to the second call for
\* every status that is false.
NeedsSecondCall_AnyReason(reply, ignore_checks) ==
    ~reply.status /\ ~ignore_checks

NeedsSecondCall(reply, ignore_checks) ==
    ~reply.status /\ ~ignore_checks /\ reply.reason = NoCurrentPasswordReason

\* Lines 304-318: what the last answer makes of the call
SetPasswordEnd(reply, ignore_checks) ==
    IF ~reply.status /\ ~ignore_checks /\ reply.reason = IncorrectPasswordReason
    THEN "ApiClientPasswordIncorrectError"
    ELSE IF ~reply.status THEN "ApiClientPasswordResetError"
    ELSE "returned"

\* SetLocalPassword(user, new_pass, cur_pass, ignore_checks) up to the
\* first remote call
SetLocalPasswordStart(args) ==
    /\ slpPc = "idle"
    /\ slpArgs' = args
    /\ IF ~args.ignore_checks /\ args.cur_pass = "None"
       THEN slpOutcome' = "ApiClientParameterError" /\ slpPc' = "done"
       ELSE IF ~args.ignore_checks /\ is_password_complex(args.new_pass) # "True"
       THEN slpOutcome' = is_password_complex(args.new_pass) /\ slpPc' = "done"
       ELSE slpOutcome' = "none" /\ slpPc' = "first"
    /\ UNCHANGED <<slpCalls, OtherThanSetPassword>>

\* The call of lines 289-291 and its answer
FirstCall(reply) ==
    /\ slpPc = "first"
    /\ slpCalls' = <<[new_pass |-> slpArgs.new_pass, cur_pass |-> slpArgs.cur_pass,
                      ignore_checks |-> slpArgs.ignore_checks, reply |-> reply]>>
    /\ IF reply.raises
       THEN slpOutcome' = "raised by the call" /\ slpPc' = "done"
       ELSE IF NeedsSecondCall(reply, slpArgs.ignore_checks)
       THEN slpPc' = "second" /\ UNCHANGED slpOutcome
       ELSE /\ slpOutcome' = SetPasswordEnd(reply, slpArgs.ignore_checks)
            /\ slpPc' = "done"
    /\ UNCHANGED <<slpArgs, OtherThanSetPassword>>

\* The call of lines 299-301 and its answer
SecondCall(reply) ==
    /\ slpPc = "second"
    /\ slpCalls' = Append(slpCalls,
                          [new_pass |-> slpArgs.new_pass, cur_pass |-> "None",
                           ignore_checks |-> TRUE, reply |-> reply])
    /\ slpOutcome' = IF reply.raises THEN "raised by the call"
                     ELSE SetPasswordEnd(reply, slpArgs.ignore_checks)
    /\ slpPc' = "done"
    /\ UNCHANGED <<slpArgs, OtherThanSetPassword>>

NextSetPassword ==
    \/ \E args \in SetPasswordArgs : SetLocalPasswordStart(args)
    \/ \E reply \in SetPasswordReplies : FirstCall(reply)
    \/ \E reply \in SetPasswordReplies : SecondCall(reply)

SpecSetPassword == InitSetPassword /\ [][NextSetPassword]_vars

(***************************************************************************)
(* Profile._resolve_type (profile.py).  _attrs is a function from the      *)
(* property keys that are set to their values; a key is the sequence of    *)
(* its pieces (<<"c2s_route", ".0">> is 'c2s_route.0'), a value a string.  *)
(* rtTypes records, for each application, the stored type it found and     *)
(* the type it left in self.type.                                          *)
(***************************************************************************)
MaxResolves == 2

GROUP == "group"

USER_CONNECT == "user_connect"

USER_CONNECT_HIDDEN == "user_connect_hidden"

USER_COMPILE == "user_compile"

USER_DEFAULT == "user_default"

USER_TYPES == {USER_CONNECT, USER_CONNECT_HIDDEN, USER_COMPILE}

TypeKey == <<"type">>

SuperuserKey == <<"prop_superuser">>

GroupDeclareKey == <<"group_declare">>

\* What dict.get gives for a key that is not set
NoValue == "<None>"

AttrGet(attrs, key) == IF key \in DOMAIN attrs THEN attrs[key] ELSE NoValue

\* _attrs[key] = value
AttrPut(attrs, key, value) ==
    [k \in DOMAIN attrs \cup {key} |-> IF k = key THEN value ELSE attrs[k]]

\* str.lower for the values given
LowerWord(word) ==
    CASE word = "True" -> "true"
      [] word = "TRUE" -> "true"
      [] word = "False" -> "false"
      [] word = "User_Default" -> "user_default"
      [] word = "User_Connect_Hidden" -> "user_connect_hidden"
      [] OTHER -> word

CompilePrefixes ==
    {<<"c2s_route">>, <<"access_from">>, <<"access_to">>, <<"dmz_ip">>,
     <<"bypass_route">>}

HasCompilePrefix(key) == \E prefix \in CompilePrefixes : StartsWith(key, prefix)

\* The type _resolve_type stores in _attrs['type'] and in self.type.  In
\* the last branch the three statements after one another: the loop over
\* the keys, the test for user_connect_hidden, and the test for
\* user_default with its else.
ResolvedType(attrs) ==
    LET prof_type == AttrGet(attrs, TypeKey)
        prop_superuser == AttrGet(attrs, SuperuserKey)
        group_declare == AttrGet(attrs, GroupDeclareKey)
    IN  IF group_declare # NoValue /\ LowerWord(group_declare) = "true"
        THEN GROUP
        ELSE IF (prop_superuser # NoValue /\ LowerWord(prop_superuser) = "true")
                \/ <<"conn_ip">> \in DOMAIN attrs
                \/ <<"inherit">> \in DOMAIN attrs
        THEN USER_COMPILE
        ELSE LET afterLoop == IF \E key \in DOMAIN attrs : HasCompilePrefix(key)
                              THEN USER_COMPILE ELSE prof_type
                 afterHidden == IF prof_type # NoValue
                                   /\ LowerWord(prof_type) = USER_CONNECT_HIDDEN
                                THEN USER_CONNECT_HIDDEN ELSE afterLoop
             IN  IF prof_type # NoValue /\ LowerWord(prof_type) = USER_DEFAULT
                 THEN USER_DEFAULT
                 ELSE USER_CONNECT

_resolve_type(attrs) == AttrPut(attrs, TypeKey, ResolvedType(attrs))

\* The properties a profile is made with
StoredTypes ==
    {USER_CONNECT, USER_CONNECT_HIDDEN, USER_COMPILE, USER_DEFAULT, GROUP,
     "User_Default"}

TruthWords == {"true", "True", "false"}

OtherKeys ==
    {<<"conn_ip">>, <<"inherit">>, <<"c2s_route", ".0">>, <<"access_from", ".0">>,
     <<"conn_group">>, <<"c2s", "_route">>}

\* The properties with the type t, prop_superuser su and group_declare gd
\* (NoValue: not set) and the other keys that are set
MakeAttrs(t, su, gd, others) ==
    LET keys == {k \in {TypeKey} : t # NoValue}
                  \cup {k \in {SuperuserKey} : su # NoValue}
                  \cup {k \in {GroupDeclareKey} : gd # NoValue}
                  \cup others
    IN  [k \in keys |-> IF k = TypeKey THEN t
                        ELSE IF k = SuperuserKey THEN su
                        ELSE IF k = GroupDeclareKey THEN gd
                        ELSE "x"]

ProfileAttrs ==
    {MakeAttrs(t, su, gd, others) :
        t \in StoredTypes \cup {NoValue}, su \in TruthWords \cup {NoValue},
        gd \in TruthWords \cup {NoValue}, others \in SUBSET OtherKeys}

InitResolve ==
    /\ rtAttrs \in ProfileAttrs
    /\ rtTypes = <<>>
    /\ InitBindIdle
    /\ InitValidateIdle
    /\ InitLookupIdle
    /\ InitFaultIdle
    /\ InitCreateIdle
    /\ InitGroupIdle
    /\ InitGenerateIdle
    /\ InitPasswordIdle
    /\ InitClientArgsIdle
    /\ InitSetPasswordIdle
    /\ InitProfileIdle

ResolveType ==
    /\ Len(rtTypes) < MaxResolves
    /\ rtAttrs' = _resolve_type(rtAttrs)
    /\ rtTypes' = Append(rtTypes, [stored |-> AttrGet(rtAttrs, TypeKey),
                                   type |-> ResolvedType(rtAttrs)])
    /\ UNCHANGED OtherThanResolve

NextResolve == ResolveType

SpecResolve == InitResolve /\ [][NextResolve]_vars

(***************************************************************************)
(* UserProfile and GroupProfile under attribute assignment (profile.py).   *)
(* profAttrs is the object's _attrs, profType its attribute type, and      *)
(* profRaised what the last assignment raised.                             *)
(***************************************************************************)
\* Profile.is_group on the properties: props.get('group_declare', '')
\* .lower() == 'true'
AttrsIsGroup(attrs) ==
    GroupDeclareKey \in DOMAIN attrs /\ LowerWord(attrs[GroupDeclareKey]) = "true"

\* The properties the profiles are made with and the dictionaries given
\* to an assignment of _attrs
ConstructorAttrs ==
    {MakeAttrs(t, su, gd, others) :
        t \in {USER_CONNECT, USER_DEFAULT, NoValue}, su \in {"true", NoValue},
        gd \in {"true", "TRUE", "false", NoValue},
        others \in SUBSET {<<"conn_group">>}}

\* UserProfile.__init__ and GroupProfile.__init__: the properties they
\* accept
Constructs(class, attrs) ==
    IF class = "UserProfile" THEN ResolvedType(attrs) \in USER_TYPES
    ELSE AttrsIsGroup(_resolve_type(attrs))

\* The keys assigned: properties, and the attributes type and _attrs that
\* the object has
AssignedKeys == {GroupDeclareKey, SuperuserKey, <<"conn_group">>}

AssignedValues == {"true", "True", "false", "x"}

AssignedTypes == {GROUP, USER_CONNECT, USER_DEFAULT}

InitProfile ==
    /\ profClass \in {"UserProfile", "GroupProfile"}
    /\ \E attrs \in ConstructorAttrs :
          /\ Constructs(profClass, attrs)
          /\ profAttrs = _resolve_type(attrs)
          /\ profType = ResolvedType(attrs)
    /\ profRaised = "none"
    /\ InitBindIdle
    /\ InitValidateIdle
    /\ InitLookupIdle
    /\ InitFaultIdle
    /\ InitCreateIdle
    /\ InitGroupIdle
    /\ InitGenerateIdle
    /\ InitPasswordIdle
    /\ InitClientArgsIdle
    /\ InitSetPasswordIdle
    /\ InitResolveIdle

\* The test of UserProfile.__setattr__ and of GroupProfile.__setattr__
SetAttrRefused(class, key, value) ==
    /\ key = GroupDeclareKey
    /\ IF class = "UserProfile" THEN LowerWord(value) = "true"
       ELSE LowerWord(value) # "true"

\* profile.<key> = value for a key that is no attribute of the object:
\* the subclass's test, then Profile.__setattr__ stores the property and
\* resolves the type
SetProperty(key, value) ==
    /\ IF SetAttrRefused(profClass, key, value)
       THEN /\ profRaised' = "AccessServerProfileIntegrityError"
            /\ UNCHANGED <<profAttrs, profType>>
       ELSE /\ profRaised' = "none"
            /\ profAttrs' = _resolve_type(AttrPut(profAttrs, key, value))
            /\ profType' = ResolvedType(AttrPut(profAttrs, key, value))
    /\ UNCHANGED <<profClass, OtherThanProfile>>

\* profile.type = value: type is an attribute of the object, so
\* Profile.__setattr__ goes to object.__setattr__
SetType(value) ==
    /\ profType' = value
    /\ profRaised' = "none"
    /\ UNCHANGED <<profClass, profAttrs, OtherThanProfile>>

\* profile._attrs = attrs: likewise an attribute of the object
SetAttrs(attrs) ==
    /\ profAttrs' = attrs
    /\ profRaised' = "none"
    /\ UNCHANGED <<profClass, profType, OtherThanProfile>>

\* Reading profile.props (as is_group and the other properties do)
\* resolves the type
ReadProps ==
    /\ profAttrs' = _resolve_type(profAttrs)
    /\ profType' = ResolvedType(profAttrs)
    /\ profRaised' = "none"
    /\ UNCHANGED <<profClass, OtherThanProfile>>

NextProfile ==
    \/ \E key \in AssignedKeys, value \in AssignedValues : SetProperty(key, value)
    \/ \E value \in AssignedTypes : SetType(value)
    \/ \E attrs \in ConstructorAttrs : SetAttrs(attrs)
    \/ ReadProps

SpecProfile == InitProfile /\ [][NextProfile]_vars

(***************************************************************************)
(* The binder on longer contracts: calls whose every argument has a value  *)
(* of its own (10 + i for the i-th positional, 20 + i for the argument     *)
(* named after the i-th parameter, 100 + i for the i-th default), so that  *)
(* each value of the vector tells the parameter it was bound for.          *)
(***************************************************************************)
MaxOrderParams == 3

\* A parameter that is not required, one that is required, one that is
\* required with a default, one that is required and nullable
OrderParamDefs(i) ==
    {[name |-> ParamNames[i], type |-> <<"int">>, null |-> FALSE,
      required |-> FALSE, default |-> NoDefault],
     [name |-> ParamNames[i], type |-> <<"int">>, null |-> FALSE,
      required |-> TRUE, default |-> NoDefault],
     [name |-> ParamNames[i], type |-> <<"int">>, null |-> FALSE,
      required |-> TRUE, default |-> IntV(100 + i)],
     [name |-> ParamNames[i], type |-> <<"int">>, null |-> TRUE,
      required |-> TRUE, default |-> NoDefault]}

OrderCatalogs ==
    UNION {{ps \in [1..n -> UNION {OrderParamDefs(i) : i \in 1..n}] :
                \A i \in 1..n : ps[i].name = ParamNames[i]} : n \in 1..MaxOrderParams}

OrderArgs(n) == [i \in 1..n |-> IntV(10 + i)]

\* The named arguments of a call: some of the parameters' names, in any
\* order
OrderKwargs(ps) ==
    LET pairs == {[name |-> ps[i].name, value |-> IntV(20 + i)] : i \in 1..Len(ps)}
    IN  UNION {{s \in [1..n -> pairs] :
                    \A a, b \in 1..n : a # b => s[a].name # s[b].name}
               : n \in 0..Len(ps)}

InitOrder ==
    /\ METHODS \in {(MethodName :> [params |-> ps]) : ps \in OrderCatalogs}
    /\ pc = "idle"
    /\ call = NoCall
    /\ outcome = NoOutcome
    /\ sends = <<>>
    /\ InitValidateIdle
    /\ InitLookupIdle
    /\ InitFaultIdle
    /\ InitHighIdle

\* A caller calls the method with some positional and some named arguments
CallInOrder ==
    /\ pc = "idle"
    /\ \E n \in 0..Len(METHODS[MethodName].params) :
         \E kwargs \in OrderKwargs(METHODS[MethodName].params) :
           Call(OrderArgs(n), kwargs)

NextOrder ==
    \/ CallInOrder
    \/ SendReturns
    \/ \E fault \in BindFaults : SendFaults(fault)
    \/ NextCall

SpecOrder == InitOrder /\ [][NextOrder]_vars

(***************************************************************************)
(* The vocabulary of the claims about a call                               *)
(***************************************************************************)
params == METHODS[MethodName].params

\* A call has been made and has bound or failed.
Called == pc \in {"sent", "done"}

TotalArgs == Len(call.args) + Len(call.kwargs)

\* The call reached the transport, with this vector.
Sent == sends # <<>>

vec == sends[1]

\* The i-th parameter of the contract (1-based) was supplied by the caller.
SuppliedByPosition(i) == i <= Len(call.args)

SuppliedByName(i) == InKwargs(call.kwargs, params[i].name)

Supplied(i) == SuppliedByPosition(i) \/ SuppliedByName(i)

Omitted(i) == ~Supplied(i)

\* The contract position of the named parameter, 0 for a name of no parameter.
PositionOf(name) ==
    IF \E i \in 1..Len(params) : params[i].name = name
    THEN CHOOSE i \in 1..Len(params) : params[i].name = name
    ELSE 0

\* The arguments that precede the k-th named argument pass the binder's
\* checks: positional ones fit and validate, named ones name a parameter
\* left after the positional ones and validate.
PositionalsPass ==
    /\ Len(call.args) <= Len(params)
    /\ \A i \in 1..Len(call.args) : validate_param(call.args[i], params[i]) = Ok

NamedPass(k) ==
    /\ PositionOf(call.kwargs[k].name) > Len(call.args)
    /\ validate_param(call.kwargs[k].value, params[PositionOf(call.kwargs[k].name)]) = Ok

(***************************************************************************)
(* Claims                                                                  *)
(***************************************************************************)
\* C1: a call with more positional plus named arguments than the contract
\* has parameters fails with the arity error (n and the total count) and
\* with no other error, whatever the arguments are.
C1_ArityErrorAlways ==
    (Called /\ TotalArgs > Len(params))
        => /\ pc = "done"
           /\ outcome = ArityError(Len(params), TotalArgs)
           /\ ~Sent

\* C2: a named argument that names a parameter already bound by a
\* positional argument (total count within the parameter count, the
\* arguments bound before it valid) fails with the duplicate-argument error
\* naming it, and nothing is sent.
C2_DuplicateError ==
    \A k \in 1..Len(call.kwargs) :
        (/\ Called
         /\ TotalArgs <= Len(params)
         /\ PositionalsPass
         /\ \A h \in 1..(k - 1) : NamedPass(h)
         /\ PositionOf(call.kwargs[k].name) \in 1..Len(call.args))
            => /\ outcome.kind = "duplicate"
               /\ outcome.name = call.kwargs[k].name
               /\ ~Sent

\* C3: a call (of valid arguments) that omits a not-required parameter and
\* supplies by name a parameter later in the contract fails with 'missing
\* argument' naming the omitted parameter, and nothing is sent.
C3_SkippedNotRequiredFails ==
    \A i \in 1..Len(params) : \A j \in 1..Len(params) :
        (/\ Called
         /\ PositionalsPass
         /\ \A k \in 1..Len(call.kwargs) : NamedPass(k)
         /\ i < j
         /\ ~params[i].required
         /\ Omitted(i)
         /\ SuppliedByName(j))
            => /\ ~Sent
               /\ outcome.kind = "missing"
               /\ ~params[PositionOf(outcome.name)].required
               /\ Omitted(PositionOf(outcome.name))

\* C4: omitting a required, non-nullable parameter that has a default
\* (whatever the default's value) is no error, and the vector sent holds
\* the default at the parameter's contract position.
C4_DefaultSent ==
    \A i \in 1..Len(params) :
        (/\ Called
         /\ params[i].required
         /\ ~params[i].null
         /\ params[i].default # NoDefault
         /\ Omitted(i))
            => /\ outcome # MissingError(params[i].name)
               /\ Sent => (Len(vec) >= i /\ vec[i] = params[i].default)

\* C5: omitting a required, nullable parameter without a default is no
\* error, and the vector sent holds null at the parameter's contract
\* position.
C5_NullSent ==
    \A i \in 1..Len(params) :
        (/\ Called
         /\ params[i].required
         /\ params[i].null
         /\ params[i].default = NoDefault
         /\ Omitted(i))
            => /\ outcome # MissingError(params[i].name)
               /\ Sent => (Len(vec) >= i /\ vec[i] = None)

\* C6: omitting a required, nullable parameter that has a default sends the
\* default, not null, at the parameter's contract position.
C6_DefaultNotNullSent ==
    \A i \in 1..Len(params) :
        (/\ Called
         /\ params[i].required
         /\ params[i].null
         /\ params[i].default # NoDefault
         /\ Omitted(i))
            => /\ outcome # MissingError(params[i].name)
               /\ Sent => (Len(vec) >= i /\ vec[i] = params[i].default)

\* The i-th parameter is required, non-nullable and has no default.
RequiredBare(i) ==
    /\ params[i].required
    /\ ~params[i].null
    /\ params[i].default = NoDefault

\* C7 as claimed, for the first parameter a call omits: every call within
\* arity and with known names that omits a required, non-nullable parameter
\* without a default fails with the missing-argument error naming that
\* parameter, and nothing is sent.
C7_MissingErrorAnyCall ==
    \A i \in 1..Len(params) :
        (/\ Called
         /\ RequiredBare(i)
         /\ Omitted(i)
         /\ \A h \in 1..(i - 1) : Supplied(h)
         /\ TotalArgs <= Len(params)
         /\ \A k \in 1..Len(call.kwargs) : PositionOf(call.kwargs[k].name) # 0)
            => /\ outcome = MissingError(params[i].name)
               /\ ~Sent

\* C7 amended: a call that omits a required, non-nullable parameter without
\* a default never reaches the transport and ends in a binding error; the
\* error is the missing-argument error naming that parameter when every
\* supplied argument passes the binder's earlier checks and no required,
\* non-nullable parameter before it in the contract is omitted too.
C7_MissingError ==
    \A i \in 1..Len(params) :
        (Called /\ RequiredBare(i) /\ Omitted(i))
            => /\ ~Sent
               /\ pc = "done"
               /\ outcome.kind \in BindingErrorKinds
               /\ (/\ PositionalsPass
                   /\ \A k \in 1..Len(call.kwargs) : NamedPass(k)
                   /\ \A h \in 1..(i - 1) :
                        (params[h].required /\ ~params[h].null) => Supplied(h))
                    => outcome = MissingError(params[i].name)

\* C7 witness: the second parameter is omitted, the first supplied by name,
\* and the call failed naming the second.
C7_Witness ==
    /\ Called
    /\ Len(params) = 2
    /\ RequiredBare(2)
    /\ Omitted(2)
    /\ SuppliedByName(1)
    /\ outcome = MissingError(params[2].name)

\* C8: when the binder reaches a named argument with parameters still
\* unconsumed and the name is no parameter's of the contract, the call fails
\* with the unexpected-keyword error naming it, and nothing is sent.
C8_UnexpectedKeyword ==
    \A k \in 1..Len(call.kwargs) :
        (/\ Called
         /\ PositionalsPass
         /\ \A h \in 1..(k - 1) : NamedPass(h)
         /\ Len(call.args) + (k - 1) < Len(params)
         /\ PositionOf(call.kwargs[k].name) = 0)
            => /\ outcome = UnexpectedKwError(call.kwargs[k].name)
               /\ pc = "done"
               /\ ~Sent

\* C8 witness: an unknown name reached after a named argument was bound,
\* with a parameter to spare.
C8_Witness ==
    /\ Called
    /\ Len(call.kwargs) = 2
    /\ PositionalsPass
    /\ NamedPass(1)
    /\ PositionOf(call.kwargs[2].name) = 0
    /\ Len(call.args) + 1 < Len(params)
    /\ outcome.kind = "unexpected_kw"

\* C9: pairing the i-th element of the vector sent with the i-th parameter
\* of the contract gives the value supplied for that parameter, or its
\* default, or null.
C9_UnbindRoundTrip ==
    Sent =>
        \A i \in 1..Len(vec) :
            /\ i <= Len(params)
            /\ \/ (SuppliedByPosition(i) /\ vec[i] = call.args[i])
               \/ (SuppliedByName(i) /\ vec[i] = KwValue(call.kwargs, params[i].name))
               \/ (Omitted(i) /\ vec[i] = GetDefault(params[i]))
               \/ vec[i] = None

\* C10: validate_param accepts null for every nullable parameter, whatever
\* its declared type.
C10_NullAccepted ==
    (vResult # NoOutcome /\ vArg = None /\ vParam.null) => vResult = Ok

\* C10 witness: null was accepted for a nullable container parameter whose
\* type has an item type.
C10_Witness ==
    /\ vResult = Ok
    /\ vArg = None
    /\ vParam.null
    /\ vParam.type = <<"dict", "[", "str", "]">>

(***************************************************************************)
(* The vocabulary of the claims about a validation                         *)
(***************************************************************************)
\* validate_param has been applied to vArg and vParam.
Validated == vResult # NoOutcome

\* The value is empty: len(x) = 0 of a string, a list or a mapping.
IsEmpty(v) == Len(v.items) = 0

\* The value is of the declared container type and of its item type: a
\* string for 'str'; a list for 'list', with every element of runtime type
\* T for 'list[T]'; a mapping for 'dict', with every key a string and every
\* value of runtime type T for 'dict[T]'.
CorrectContainer(v, t) ==
    /\ v.type = BaseType(t)
    /\ (BaseType(t) = "list" /\ HasBracket(t))
          => \A i \in 1..Len(v.items) : v.items[i] = ItemType(t)
    /\ (BaseType(t) = "dict" /\ HasBracket(t))
          => /\ \A i \in 1..Len(v.items) : v.items[i] = "str"
             /\ \A i \in 1..Len(v.vals) : v.vals[i] = ItemType(t)

\* C11: for a string, list or mapping parameter and a value of the correct
\* container and item type, a non-nullable parameter rejects the empty
\* value with the non-empty diagnostic and accepts every non-empty value,
\* and a nullable parameter accepts the empty value.
C11_EmptyRule ==
    (/\ Validated
     /\ BaseType(vParam.type) \in {"str", "list", "dict"}
     /\ CorrectContainer(vArg, vParam.type))
        => /\ (~vParam.null /\ IsEmpty(vArg))
                => vResult = EmptyError(vParam, BaseType(vParam.type), vArg)
           /\ (~vParam.null /\ ~IsEmpty(vArg)) => vResult = Ok
           /\ (vParam.null /\ IsEmpty(vArg)) => vResult = Ok

\* C12: a list-of-T parameter rejects a non-null value that is no list with
\* the diagnostic naming the actual type, and a list with an element whose
\* runtime type is not T with the wrong-item-type diagnostic.
C12_ListItemRule ==
    (/\ Validated
     /\ BaseType(vParam.type) = "list"
     /\ HasBracket(vParam.type)
     /\ vArg # None)
        => /\ vArg.type # "list" => vResult = WrongTypeError(vParam, vArg)
           /\ (/\ vArg.type = "list"
               /\ \E i \in 1..Len(vArg.items) : vArg.items[i] # ItemType(vParam.type))
                => vResult = WrongItemTypeError(vParam)

\* C13: a non-null value whose runtime type is not the declared base type
\* is rejected with the diagnostic naming the parameter, the declared type
\* and the actual type; a non-empty value whose runtime type is the declared
\* type (a type without an item type) is accepted.
C13_TypeMismatchRejected ==
    (Validated /\ vArg # None)
        => /\ vArg.type # BaseType(vParam.type)
                => vResult = WrongTypeError(vParam, vArg)
           /\ (/\ vArg.type = BaseType(vParam.type)
               /\ ~HasBracket(vParam.type)
               /\ ~(vArg.type \in {"str", "list", "dict"} /\ IsEmpty(vArg)))
                => vResult = Ok

\* C14: a mapping-of-string-to-T parameter rejects with the item-type
\* diagnostic every mapping with an entry whose value is not of runtime
\* type T, also when all of its keys are strings.
C14_DictValueRule ==
    (/\ Validated
     /\ BaseType(vParam.type) = "dict"
     /\ HasBracket(vParam.type)
     /\ vArg.type = "dict"
     /\ \E i \in 1..Len(vArg.vals) : vArg.vals[i] # ItemType(vParam.type))
        => vResult = WrongItemTypeError(vParam)

(***************************************************************************)
(* The claims about a lookup                                               *)
(***************************************************************************)
\* A name has been looked up on a client that is not in allow_unsupported
\* mode.
LookedUpSupportedOnly == pc # "idle" /\ ~allow_unsupported

\* C15 as claimed: not in allow_unsupported mode, looking up a name that is
\* no key of the catalog fails at lookup with the AttributeError whose
\* message names the name looked up, and nothing is sent; looking up a
\* registered name succeeds.
C15_NotSupportedNamesName ==
    LookedUpSupportedOnly
        => /\ attr \notin DOMAIN METHODS
                => /\ pc = "done"
                   /\ outcome.kind = "AttributeError"
                   /\ outcome.expected = attr
                   /\ method = NoMethod
                   /\ ~Sent
           /\ attr \in DOMAIN METHODS
                => /\ method = [kind |-> "supported", name |-> attr]
                   /\ outcome.kind # "AttributeError"

\* C15 amended: the same, the message naming the part of the name looked
\* up that precedes its first dot (the whole name when it has no dot).
C15_NotSupported ==
    LookedUpSupportedOnly
        => /\ attr \notin DOMAIN METHODS
                => /\ pc = "done"
                   /\ outcome.kind = "AttributeError"
                   /\ outcome.expected = <<Head(attr)>>
                   /\ method = NoMethod
                   /\ ~Sent
           /\ attr \in DOMAIN METHODS
                => /\ method = [kind |-> "supported", name |-> attr]
                   /\ outcome.kind # "AttributeError"

\* C15 witness: a dotted name that is no key failed at lookup on a client
\* whose catalog has another dotted name as a key.
C15_Witness ==
    /\ LookedUpSupportedOnly
    /\ attr = <<"system", "nothing">>
    /\ <<"system", "listMethods">> \in DOMAIN METHODS
    /\ outcome.kind = "AttributeError"
    /\ ~Sent

(***************************************************************************)
(* The claims about translate_fault                                        *)
(***************************************************************************)
\* The fault string has one of the four signatures of code 9000.
IsValueErrorString(str) == StartsWith(str, ValueErrorPrefix)

IsUsernameNotFoundString(str) ==
    StartsWith(str, UsernamePrefix) /\ EndsWith(str, NotFoundSuffix)

\* The (code, message) pair matches a recognised signature.
Recognised(err) ==
    \/ err.faultCode \in {8002, 9007}
    \/ /\ err.faultCode = 9000
       /\ \/ IsValueErrorString(err.faultString)
          \/ err.faultString = InternalErrorString
          \/ err.faultString = FunctionNotFoundString
          \/ IsUsernameNotFoundString(err.faultString)

\* C16: every invocation of translate_fault on a fault of code 9007 gives
\* the authorization error and on a fault of code 8002 the parameter-count
\* error, whatever the message, and all invocations on the same fault give
\* the same.
C16_AuthAndParameterKinds ==
    \A i \in 1..Len(tfResults) :
        /\ tfErr.faultCode = 9007 => tfResults[i].kind = "ApiClientAuthError"
        /\ tfErr.faultCode = 8002 => tfResults[i].kind = "ApiClientParameterError"
        /\ tfResults[i] = tfResults[1]

\* C17: a fault of code 9000 is mapped by the first match of: the
\* value-error prefix (the error carrying the rest of the message), the
\* internal-error string, the function-not-found string, the username
\* prefix with the not-found suffix; it is mapped to one of these kinds only
\* when its signature matches, and to the unexpected error otherwise.
C17_Code9000FirstMatch ==
    \A i \in 1..Len(tfResults) :
        tfErr.faultCode = 9000 =>
            LET str == tfErr.faultString
                r == tfResults[i]
            IN  /\ r.kind = "ApiClientValueError" <=> IsValueErrorString(str)
                /\ r.kind = "ApiClientValueError"
                     => ValueErrorPrefix \o r.expected = str
                /\ r.kind = "ApiClientInternalError" <=> str = InternalErrorString
                /\ r.kind = "ApiClientFunctionNotFoundError"
                     <=> str = FunctionNotFoundString
                /\ r.kind = "ApiClientUsernameNotFoundError"
                     <=> IsUsernameNotFoundString(str)
                /\ r.kind \in {"ApiClientValueError", "ApiClientInternalError",
                               "ApiClientFunctionNotFoundError",
                               "ApiClientUsernameNotFoundError",
                               "ApiClientUnexpectedError"}

\* C17 witness: a value error whose message is what followed the prefix, a
\* string that ends with 'not found'.
C17_Witness ==
    /\ Len(tfResults) = MaxInvocations
    /\ tfErr.faultCode = 9000
    /\ tfErr.faultString = ValueErrorPrefix \o <<" 'bob' ", "not found">>
    /\ tfResults[1].kind = "ApiClientValueError"
    /\ tfResults[1].expected = <<" 'bob' ", "not found">>

\* C18: a fault that matches no recognised signature is translated to the
\* unexpected error carrying its code and its message unaltered, and no
\* invocation of translate_fault on a fault fails or returns nothing.
C18_UnexpectedAndTotal ==
    \A i \in 1..Len(tfResults) :
        /\ ~Recognised(tfErr)
             => /\ tfResults[i].kind = "ApiClientUnexpectedError"
                /\ tfResults[i].n = tfErr.faultCode
                /\ tfResults[i].expected = tfErr.faultString
        /\ tfResults[i].kind \notin {"NameError", "none"}

(***************************************************************************)
(* The claims about the order of a call's steps                            *)
(***************************************************************************)
\* C19: the transport is invoked only when every supplied argument has
\* passed validation and the arity, unknown-name and missing-required
\* checks have passed; a call that ends in a binding error has not invoked
\* the transport.
C19_SendAfterChecks ==
    /\ Sent => /\ TotalArgs <= Len(params)
               /\ PositionalsPass
               /\ \A k \in 1..Len(call.kwargs) : NamedPass(k)
               /\ \A i \in 1..Len(params) : RequiredBare(i) => Supplied(i)
    /\ outcome.kind \in BindingErrorKinds => (pc = "done" /\ ~Sent)

\* C19 witness: a call with a positional and a named argument reached the
\* transport.
C19_Witness ==
    /\ pc = "sent"
    /\ Sent
    /\ Len(call.args) = 1
    /\ Len(call.kwargs) = 1
    /\ Len(vec) = 2

\* The errors a call ends in after a Fault of the transport.
FaultOutcomes == {translate_fault(fault) : fault \in BindFaults}

\* C20: a call invokes the transport at most once and ends in exactly one
\* outcome: the transport's result (one send), a binding error (no send),
\* or the error that one Fault of the transport led to (one send, never a
\* second); before its end it has no outcome.
C20_OneSendOneOutcome ==
    /\ Len(sends) <= 1
    /\ pc = "sent" => (Len(sends) = 1 /\ outcome = NoOutcome)
    /\ pc = "idle" => (Len(sends) = 0 /\ outcome = NoOutcome)
    /\ pc = "done"
         => \/ (outcome.kind = "result" /\ Len(sends) = 1)
            \/ (outcome.kind \in BindingErrorKinds /\ Len(sends) = 0)
            \/ (outcome \in FaultOutcomes /\ Len(sends) = 1)

\* C20 witness: a call ended in the error of a Fault after its one send.
C20_Witness ==
    /\ pc = "done"
    /\ Len(sends) = 1
    /\ outcome.kind = "ApiClientParameterError"

(***************************************************************************)
(* The claims about create_user                                            *)
(***************************************************************************)
\* The call created the profile and ended in an error.
CreatedThenFailed ==
    /\ cuPc = "done"
    /\ cuOutcome # "returned"
    /\ \E i \in 1..Len(cuLog) : cuLog[i] = "UserPropPut"

\* C21: when create_user has created the profile and a later step of the
\* call fails, the profile no longer exists on the server when the error
\* reaches the caller: UserPropDelAll was issued for it.
C21_ProfileDeletedOnFailure ==
    CreatedThenFailed
        => /\ ~cuServer.profile
           /\ \E i \in 1..Len(cuLog) : cuLog[i] = "UserPropDelAll"

(***************************************************************************)
(* The claims about the group operations                                   *)
(***************************************************************************)
\* C22: for a name whose profile exists and is a group, get_group returns
\* a GroupProfile and delete_group and ban_group delete and ban it; for a
\* name whose profile exists and is a user, get_group raises
\* AccessServerProfileExistsError.  (A profile that delete_group has
\* deleted is the one case of a group operation leaving no profile.)
C22_GroupOperations ==
    grpOp.op # "none" =>
        LET profile == grpServer[grpOp.name]
        IN  /\ (grpOp.op = "get_group" /\ profile.present /\ is_group(profile))
                   => grpOutcome = "GroupProfile"
            /\ (grpOp.op = "get_group" /\ profile.present /\ ~is_group(profile))
                   => grpOutcome = "AccessServerProfileExistsError"
            /\ (grpOp.op = "ban_group" /\ profile.present /\ is_group(profile))
                   => grpOutcome = "banned" /\ profile.prop_deny
            /\ (grpOp.op = "delete_group" /\ profile.present)
                   => ~is_group(profile)

(***************************************************************************)
(* The claims about generate_random_password                               *)
(***************************************************************************)
\* C23: generate_random_password never generates more than `retries`
\* failing candidates, and once `retries` candidates have failed it is not
\* still in its loop or returning a password: it raises
\* PasswordGenerationComplexityTimeout.
C23_RetriesBoundFailures ==
    /\ gpFailed <= gpRetries
    /\ (gpPc = "returned" => gpFailed < gpRetries)

(***************************************************************************)
(* The claims about is_password_complex                                    *)
(***************************************************************************)
\* The letters by their Unicode class: uppercase, lowercase
UppercaseLetters == {"A", "DZ"}

LowercaseLetters == {"a", "dz", "kra"}

MeetsComplexityRule(s) ==
    /\ Len(s) >= 8
    /\ Contains(s, UppercaseLetters)
    /\ Contains(s, LowercaseLetters)
    /\ Contains(s, DigitChars)
    /\ Contains(s, SymbolChars)

\* C24: is_password_complex returns True exactly for the strings of length
\* at least 8 that contain an uppercase letter, a lowercase letter, a digit
\* and an allowed symbol; for every other string and for None it raises
\* ApiClientPasswordComplexityError, for a non-string TypeError; it never
\* returns False.
C24_ComplexExactly ==
    pwResult # "none" =>
        /\ pwResult # "False"
        /\ pwArg.type = "NoneType" => pwResult = PasswordComplexityError
        /\ pwArg.type = "int" => pwResult = "TypeError"
        /\ pwArg.type = "str" =>
              pwResult = IF MeetsComplexityRule(pwArg.chars) THEN "True"
                         ELSE PasswordComplexityError

(***************************************************************************)
(* The claims about validate_client_args                                   *)
(***************************************************************************)
\* The first failing check in the order endpoint (unset, not a string,
\* invalid), username (unset, not a string, contains ':'), password
\* (unset, not a string, contains ':'); "none" when every check passes.
\* An endpoint is invalid when validate_endpoint does not accept it.
FirstFailingCheck(args) ==
    CASE args.endpoint.type = "NoneType" -> "endpoint unset"
      [] args.endpoint.type = "int" -> "endpoint not a string"
      [] validate_endpoint(args.endpoint.url) # "True" -> "endpoint invalid"
      [] args.username.type = "NoneType" -> "username unset"
      [] args.username.type = "int" -> "username not a string"
      [] HasColon(args.username.chars) -> "username contains :"
      [] args.password.type = "NoneType" -> "password unset"
      [] args.password.type = "int" -> "password not a string"
      [] HasColon(args.password.chars) -> "password contains :"
      [] OTHER -> "none"

\* C25: validate_client_args returns True exactly when the three arguments
\* are strings, validate_endpoint accepts the endpoint and neither
\* username nor password contains ':'; otherwise it raises
\* ApiClientConfigurationError for the first failing check in the fixed
\* order; it never returns False.
C25_FirstFailingCheck ==
    vcResult.kind # "none" =>
        /\ vcResult # Returned("False")
        /\ vcResult = IF FirstFailingCheck(vcArgs) = "none" THEN Returned("True")
                      ELSE ConfigurationError(FirstFailingCheck(vcArgs))

(***************************************************************************)
(* The claims about SetLocalPassword                                       *)
(***************************************************************************)
\* C26: for SetLocalPassword with ignore_checks false, no remote call is
\* made when cur_pass is None or new_pass is not complex; a remote call
\* with the ignore flag true and a null current password is made only as
\* the second call and only after the first was answered with status
\* false and the no-current-password reason; and at most two remote calls
\* are made.
C26_ChecksDisabledOnlyAsSecond ==
    (slpPc # "idle" /\ ~slpArgs.ignore_checks) =>
        /\ (slpArgs.cur_pass = "None"
              \/ is_password_complex(slpArgs.new_pass) # "True")
               => slpCalls = <<>>
        /\ Len(slpCalls) <= 2
        /\ \A i \in 1..Len(slpCalls) :
              (slpCalls[i].ignore_checks \/ slpCalls[i].cur_pass = "None") =>
                  /\ i = 2
                  /\ slpCalls[i].ignore_checks
                  /\ slpCalls[i].cur_pass = "None"
                  /\ ~slpCalls[1].reply.raises
                  /\ ~slpCalls[1].reply.status
                  /\ slpCalls[1].reply.reason = NoCurrentPasswordReason
        /\ Len(slpCalls) = 2 => slpCalls[2].ignore_checks

\* A call without ignore_checks that made the second remote call
C26_Witness ==
    /\ slpPc = "done"
    /\ ~slpArgs.ignore_checks
    /\ Len(slpCalls) = 2
    /\ slpCalls[2].ignore_checks
    /\ slpOutcome = "returned"

(***************************************************************************)
(* The claims about _resolve_type                                          *)
(***************************************************************************)
IsTrueWord(value) == value # NoValue /\ LowerWord(value) = "true"

\* The documented rules, in their precedence, for properties attrs whose
\* stored type is stored
DocumentedType(attrs, stored) ==
    IF IsTrueWord(AttrGet(attrs, GroupDeclareKey)) THEN GROUP
    ELSE IF \/ IsTrueWord(AttrGet(attrs, SuperuserKey))
            \/ <<"inherit">> \in DOMAIN attrs
            \/ <<"conn_ip">> \in DOMAIN attrs
            \/ \E key \in DOMAIN attrs : HasCompilePrefix(key)
    THEN USER_COMPILE
    ELSE IF stored # NoValue /\ LowerWord(stored) = USER_CONNECT_HIDDEN
    THEN USER_CONNECT_HIDDEN
    ELSE IF stored # NoValue /\ LowerWord(stored) = USER_DEFAULT
    THEN USER_DEFAULT
    ELSE USER_CONNECT

\* C28: _resolve_type gives the type of the documented rules in their
\* precedence (group; user_compile for prop_superuser, inherit, conn_ip or
\* a key with one of the five prefixes; a stored user_connect_hidden or
\* user_default kept; otherwise user_connect), and a second application
\* does not change the result.
C28_DocumentedRules ==
    /\ \A i \in 1..Len(rtTypes) :
          rtTypes[i].type = DocumentedType(rtAttrs, rtTypes[i].stored)
    /\ Len(rtTypes) = 2 => rtTypes[2].type = rtTypes[1].type

(***************************************************************************)
(* The claims about the profiles                                           *)
(***************************************************************************)
\* C27: after every sequence of attribute assignments a UserProfile has
\* its type among the user types and is_group false, and a GroupProfile
\* has is_group true (an assignment that raises leaves the profile as it
\* was).
C27_AssignmentsKeepKind ==
    /\ profClass = "UserProfile"
          => profType \in USER_TYPES /\ ~AttrsIsGroup(profAttrs)
    /\ profClass = "GroupProfile" => AttrsIsGroup(profAttrs)

\* The j-th value of the vector sent is one bound for the i-th parameter:
\* the argument supplied for it, or its default or null when it was
\* omitted.
BoundFor(j, i) ==
    \/ SuppliedByPosition(i) /\ vec[j] = call.args[i]
    \/ SuppliedByName(i) /\ vec[j] = KwValue(call.kwargs, params[i].name)
    \/ Omitted(i) /\ params[i].required /\ vec[j] = GetDefault(params[i])

\* C29: the values of the vector sent are in strictly increasing contract
\* order of the parameters they belong to, the supplied positionals first
\* in their original order, whatever the order of the named arguments and
\* whichever not-required parameters were omitted.
C29_ContractOrder ==
    Sent =>
        /\ Len(vec) >= Len(call.args)
        /\ \A j \in 1..Len(call.args) : vec[j] = call.args[j]
        /\ \E f \in [1..Len(vec) -> 1..Len(params)] :
              /\ \A j \in 1..Len(vec) : BoundFor(j, f[j])
              /\ \A j, k \in 1..Len(vec) : j < k => f[j] < f[k]

====
